---- MODULE Spec2Model ----
(***************************************************************************)
(* Gas-sponsorship relay: the sponsorTransaction handlers of the          *)
(* repository (the no-fee controller, the fee-aware controller and the    *)
(* fee-reporting controller), the validateTransaction helper and the fee  *)
(* arithmetic they use, as a state machine over one HTTP request at a     *)
(* time.  A handler runs from the arrival of the request to its first     *)
(* await in one action; every await is a separate action that resumes it. *)
(***************************************************************************)
EXTENDS Integers, Sequences, FiniteSets, TLC

VARIABLES
    variant,      \* which sponsorshipController is deployed
    pc,           \* position of the handler: idle, an await point, or done
    body,         \* req.body.transaction of the request being handled
    transaction,  \* the deserialized VersionedTransaction (signatures mutable)
    scan,         \* the handler's tracking variables after the instruction loop
    feeInfo,      \* what calculateAllFees returned to the handler
    response,     \* what res.status(..).json(..) was called with
    sendCalls,    \* calls of connection.sendTransaction made by this request
    submitted,    \* the transaction objects handed to connection.sendTransaction
    ledgerReply,  \* what connection.sendTransaction answered
    prep,         \* the prepareFeeTransaction handler: position, request, quote, answer
    feeDataCache,          \* feeCalculator's cached FeeData, or null
    lastFeeDataUpdate,     \* feeCalculator's time stamp of the cache
    cacheRefreshStarted,   \* history: when the refresh that filled the cache started
    now,                   \* Date.now(), in minutes
    calls,                 \* the getCurrentFeeData calls of the concurrent callers
    walletKey,             \* what process.env.WALLET_PRIVATE_KEY holds
    generated,             \* how many keys Keypair.generate() has made so far
    health,                \* the getWalletHealth handler: position, key read, answer
    requests,              \* the handlers in flight together, each with its own locals
    users,                 \* storage.ts: the usernames in the users map
    authenticators,        \* webAuthn.ts: the users with a stored credential
    challenges,            \* webAuthn.ts: the users with a stored challenge
    tokens,                \* storage.ts: the session tokens
    issued,                \* how many session tokens were generated so far
    walletOperation        \* the last request the wallet controller handled

sponsorVars == <<variant, pc, body, transaction, scan, feeInfo, response, sendCalls,
                 submitted, ledgerReply>>

oracleVars == <<feeDataCache, lastFeeDataUpdate, cacheRefreshStarted, now, calls>>

walletVars == <<walletKey, generated, health>>

authVars == <<users, authenticators, challenges, tokens, issued, walletOperation>>

serverVars == <<walletVars, requests, authVars>>

vars == <<sponsorVars, prep, oracleVars, serverVars>>

----------------------------------------------------------------------------
(* Bounds of the model *)

\* longest instruction list of a submitted transaction
MaxInstr == 3

----------------------------------------------------------------------------
(* Keys and process-wide constants *)

Sponsor == "Sponsor"
UserA == "UserA"
UserB == "UserB"
OtherProgram == "OtherProgram"
\* JavaScript's undefined, as returned by accountKeys.get for an index
\* outside the static key table
Undefined == "undefined"

SYSTEM_PROGRAM_ID == "11111111111111111111111111111111"

FEE_PAYER_ADDRESS == Sponsor

\* feeCollectionWallet = feePayerWallet
FEE_COLLECTION_ADDRESS == FEE_PAYER_ADDRESS

\* first data byte of a System Program transfer
TRANSFER_COMMAND == 2

\* data.length needed by extractTransferAmount
TRANSFER_DATA_LENGTH == 12

\* minimum service fee in lamports
MIN_SERVICE_FEE == 5000

\* default gas fee in lamports (estimateTransactionFee's fallback)
DEFAULT_GAS_FEE == 5000

\* ESTIMATED_GAS_FEE = 0.000005 * LAMPORTS_PER_SOL
ESTIMATED_GAS_FEE == 5000

\* the margin of the fee check, in percent of the expected total fee
FEE_MARGIN_PERCENT == 95

\* service fee percentages are kept in tenths of a percent: 0.5% is 5
DEFAULT_SERVICE_FEE_PERCENTAGE == 5

\* SERVICE_FEE_PERCENTAGE of the controllers, in tenths of a percent
SERVICE_FEE_PERCENTAGE == 5

Variants == {"noFee", "feeAware", "feeReporting"}

----------------------------------------------------------------------------
(* Requests: what a client can put into req.body.transaction *)

\* body without a transaction field
Missing == [kind |-> "missing"]
\* body whose transaction field is the empty string
Empty == [kind |-> "empty"]
\* !serializedTransaction
NoTransactionData(b) == b.kind \in {"missing", "empty"}
\* base64 text whose bytes VersionedTransaction.deserialize rejects
Garbage == [kind |-> "garbage"]

\* static account-key tables of the submitted messages; index 5 is outside
\* every table
SponsorFirst == <<Sponsor, UserA, UserB, SYSTEM_PROGRAM_ID, OtherProgram>>
UserFirst == <<UserA, Sponsor, UserB, SYSTEM_PROGRAM_ID, OtherProgram>>
KeyTables == { <<>>, SponsorFirst, UserFirst }

\* 0-based index of a key in the sponsor-first table
IndexOf(key) == CHOOSE i \in 0..(Len(SponsorFirst) - 1) : SponsorFirst[i + 1] = key
SystemIndex == IndexOf(SYSTEM_PROGRAM_ID)
OtherIndex == IndexOf(OtherProgram)
OutOfRange == Len(SponsorFirst)

\* lamport amounts written into instruction data: the smallest fee payment
\* accepted under the default quote, and a transfer whose 0.5% service fee
\* is one lamport above twice the minimum service fee
SmallAmount == ((MIN_SERVICE_FEE + DEFAULT_GAS_FEE) * FEE_MARGIN_PERCENT) \div 100
LargeAmount == 200 * (2 * MIN_SERVICE_FEE + 1)

\* instruction data: its length, its first byte, and the u64 at offset 4
TransferData(amt) == [len |-> TRANSFER_DATA_LENGTH, op |-> TRANSFER_COMMAND, amt |-> amt]
ShortTransferData == [len |-> 4, op |-> TRANSFER_COMMAND, amt |-> 0]
CreateAccountData == [len |-> 52, op |-> 0, amt |-> SmallAmount]

SystemInstruction(accounts, data) ==
    [programIdIndex |-> SystemIndex, accountKeyIndexes |-> accounts, data |-> data]

\* the instructions a submitted message is built from.  Key indices are
\* those of the sponsor-first table: 0 sponsor (also the fee-collection
\* address), 1 UserA, 2 UserB, 5 unresolvable.
Instructions ==
    { SystemInstruction(<<1, 2>>, TransferData(SmallAmount)),   \* user transfer
      SystemInstruction(<<1, 2>>, TransferData(LargeAmount)),
      SystemInstruction(<<1, 0>>, TransferData(SmallAmount)),   \* fee payment
      SystemInstruction(<<1, 0>>, TransferData(LargeAmount)),
      SystemInstruction(<<2, 0>>, TransferData(SmallAmount)),   \* fee payment by UserB
      SystemInstruction(<<1, 0>>, ShortTransferData),           \* fee payment, no amount
      SystemInstruction(<<0, 2>>, TransferData(SmallAmount)),   \* transfer from the sponsor
      SystemInstruction(<<0, OutOfRange>>, TransferData(SmallAmount)),
      SystemInstruction(<<0>>, TransferData(SmallAmount)),
      SystemInstruction(<<0, 2>>, CreateAccountData),           \* create-account from the sponsor
      [programIdIndex |-> OtherIndex, accountKeyIndexes |-> <<0, 2>>,
       data |-> TransferData(SmallAmount)],
      [programIdIndex |-> OutOfRange, accountKeyIndexes |-> <<0, 2>>,
       data |-> TransferData(SmallAmount)] }

InstructionLists == UNION { [1..n -> Instructions] : n \in 0..MaxInstr }

\* message headers: the key table and numRequiredSignatures
Headers ==
    { <<keys, n>> \in KeyTables \X (0..3) :
        /\ n <= Len(keys)
        /\ (Len(keys) > 0 /\ keys[1] # Sponsor) => n = 2 }

\* a signature slot holds nothing valid, the key owner's signature, or the
\* sponsor's signature
NoSignature == "none"
UserSignature == "user"
SponsorSignature == "sponsor"

\* the transactions a client can author: the header's numRequiredSignatures
\* marks the first keys of the table as signers; the client countersigns
\* for the user keys and has no sponsor key, so the sponsor's slot arrives
\* without a valid signature.  No controller reads the signature slots.
ClientSignatures(keys, n) ==
    [i \in 1..n |-> IF keys[i] # Sponsor THEN UserSignature ELSE NoSignature]

Transactions ==
    { [kind |-> "transaction",
       message |-> [staticAccountKeys |-> keys,
                    numRequiredSignatures |-> n,
                    compiledInstructions |-> instrs],
       signatures |-> ClientSignatures(keys, n)] :
        <<keys, n>> \in Headers, instrs \in InstructionLists }

Bodies == {Missing, Empty, Garbage} \cup Transactions

NoTransaction == [kind |-> "none"]

----------------------------------------------------------------------------
(* The decoded message: account keys, signer flags, instruction payloads *)

\* message.getAccountKeys().get(index) of a message without address-table
\* lookups: undefined outside the static key table
AccountKeysGet(message, index) ==
    IF index \in 0..(Len(message.staticAccountKeys) - 1)
    THEN message.staticAccountKeys[index + 1]
    ELSE Undefined

\* instruction.accountKeyIndexes[k]; -1 stands for undefined
AccountKeyIndex(instruction, k) ==
    IF k < Len(instruction.accountKeyIndexes)
    THEN instruction.accountKeyIndexes[k + 1]
    ELSE -1

\* message.isAccountSigner(index)
IsAccountSigner(message, index) == index < message.numRequiredSignatures

\* instruction.data[0]; -1 stands for undefined (empty data)
FirstDataByte(data) == IF data.len > 0 THEN data.op ELSE -1

ExtractTransferAmount(data) ==
    IF data.len >= TRANSFER_DATA_LENGTH /\ data.op = TRANSFER_COMMAND
    THEN data.amt
    ELSE 0

\* VersionedTransaction.deserialize(Buffer.from(serializedTransaction, 'base64'))
Deserialize(b) == [kind |-> "transaction", message |-> b.message, signatures |-> b.signatures]

\* position of a key among the required signers, 0 when it is none of them
SignerIndex(tx, key) ==
    LET slots == { i \in 1..tx.message.numRequiredSignatures :
                     tx.message.staticAccountKeys[i] = key }
    IN IF slots = {} THEN 0 ELSE CHOOSE i \in slots : \A j \in slots : i <= j

\* transaction.sign([feePayerWallet]) throws for a key that is no required signer
CanSign(tx) == SignerIndex(tx, FEE_PAYER_ADDRESS) # 0

\* a signing that first clears every signature slot, as the sign method of
\* the legacy Transaction class does
SignAfresh(tx) ==
    [tx EXCEPT !.signatures =
        [i \in DOMAIN tx.signatures |->
            IF i = SignerIndex(tx, FEE_PAYER_ADDRESS)
            THEN SponsorSignature ELSE NoSignature]]

\* VersionedTransaction.sign([feePayerWallet]): the signature is written
\* into the slot of the signer's key, the other slots are left alone
Sign(tx) ==
    [tx EXCEPT !.signatures[SignerIndex(tx, FEE_PAYER_ADDRESS)] = SponsorSignature]

----------------------------------------------------------------------------
(* Fee arithmetic *)

\* a reference price that is unavailable (null)
NoPrice == -1
\* data.solana.usd of an answer whose solana object has no usd field
UndefinedPrice == -2

\* what a price-feed call and a gas-estimate call can bring back
Prices == {NoPrice, 10, 50, 150}
GasEstimates == {DEFAULT_GAS_FEE, DEFAULT_GAS_FEE + 1}

\* bands that count the two limits in
GetAdjustedServiceFeePercentageInclusive(solPriceUsd) ==
    IF solPriceUsd = NoPrice THEN DEFAULT_SERVICE_FEE_PERCENTAGE
    ELSE IF solPriceUsd = UndefinedPrice THEN 5
    ELSE IF solPriceUsd >= 100 THEN 3
    ELSE IF solPriceUsd <= 20 THEN 7
    ELSE 5

\* service fee percentage in tenths of a percent
GetAdjustedServiceFeePercentage(solPriceUsd) ==
    IF solPriceUsd = NoPrice THEN DEFAULT_SERVICE_FEE_PERCENTAGE
    ELSE IF solPriceUsd = UndefinedPrice THEN 5
    ELSE IF solPriceUsd > 100 THEN 3
    ELSE IF solPriceUsd < 20 THEN 7
    ELSE 5

\* the quotes a refresh of the fee data can produce
FeeQuotes ==
    { [gasFeeLamports |-> g,
       serviceFeePercentage |-> GetAdjustedServiceFeePercentage(p),
       solPriceUsd |-> p] : g \in GasEstimates, p \in Prices }

Max(a, b) == IF a >= b THEN a ELSE b

\* a service fee rounded down instead of up
CalculateServiceFeeFloored(transferAmountLamports, feePercentage) ==
    Max((transferAmountLamports * feePercentage) \div 1000, MIN_SERVICE_FEE)

\* Math.max(Math.ceil(amount * (percentage / 100)), 5000), the percentage
\* in tenths of a percent
CalculateServiceFee(transferAmountLamports, feePercentage) ==
    Max((transferAmountLamports * feePercentage + 999) \div 1000, MIN_SERVICE_FEE)

\* usdValues of calculateAllFees: null without a price, else each amount
\* converted by (lamports / 1_000_000_000) * solPriceUsd, kept here in
\* billionths of a dollar; an undefined price makes every value NaN
NoUsdValues == [available |-> FALSE]
NaNUsdValues == [nan |-> TRUE]
UsdValues(solPriceUsd, transferAmountLamports, serviceFeeAmount, gasFeeLamports, totalFeeRequired) ==
    IF solPriceUsd = NoPrice THEN NoUsdValues
    ELSE IF solPriceUsd = UndefinedPrice THEN NaNUsdValues
    ELSE [transferAmountUsd |-> transferAmountLamports * solPriceUsd,
          serviceFeeUsd |-> serviceFeeAmount * solPriceUsd,
          gasFeeUsd |-> gasFeeLamports * solPriceUsd,
          totalFeeUsd |-> totalFeeRequired * solPriceUsd]

\* calculateAllFees, given the quote getCurrentFeeData returned
CalculateAllFees(quote, transferAmountLamports) ==
    LET serviceFeeAmount ==
            CalculateServiceFee(transferAmountLamports, quote.serviceFeePercentage)
    IN [originalTransferAmount |-> transferAmountLamports,
        serviceFeePercentage |-> quote.serviceFeePercentage,
        serviceFeeAmount |-> serviceFeeAmount,
        gasFeeReimbursement |-> quote.gasFeeLamports,
        totalFeeRequired |-> serviceFeeAmount + quote.gasFeeLamports,
        usdValues |-> UsdValues(quote.solPriceUsd, transferAmountLamports,
                                serviceFeeAmount, quote.gasFeeLamports,
                                serviceFeeAmount + quote.gasFeeLamports),
        solPriceUsd |-> quote.solPriceUsd]

\* the fee-reporting controller's own fee computation
StaticFees(transferAmount) ==
    LET serviceFee == CalculateServiceFee(transferAmount, SERVICE_FEE_PERCENTAGE)
    IN [originalTransferAmount |-> transferAmount,
        serviceFeePercentage |-> SERVICE_FEE_PERCENTAGE,
        serviceFeeAmount |-> serviceFee,
        gasFeeReimbursement |-> ESTIMATED_GAS_FEE,
        totalFeeRequired |-> serviceFee + ESTIMATED_GAS_FEE,
        usdValues |-> NoUsdValues,
        solPriceUsd |-> NoPrice]

NoFeeInfo == [originalTransferAmount |-> 0, serviceFeePercentage |-> 0,
              serviceFeeAmount |-> 0, gasFeeReimbursement |-> 0,
              totalFeeRequired |-> 0, usdValues |-> NoUsdValues,
              solPriceUsd |-> NoPrice]

\* the fees object of a 200 response
NoFees == [originalTransferAmount |-> 0, serviceFeePercentage |-> 0,
           serviceFeeAmount |-> 0, gasFeeReimbursement |-> 0,
           totalFeeRequired |-> 0, totalFeePaid |-> 0]

\* a threshold that takes the margin for the share to be paid
MinAcceptableFeeMarginShare(expectedTotalFee) ==
    (expectedTotalFee * (100 - FEE_MARGIN_PERCENT)) \div 100

\* Math.floor(expectedTotalFee * 0.95)
MinAcceptableFee(expectedTotalFee) == (expectedTotalFee * FEE_MARGIN_PERCENT) \div 100

----------------------------------------------------------------------------
(* Responses *)

NoDetails == [none |-> TRUE]
NoResponse ==
    [status |-> 0, error |-> "", details |-> NoDetails, transactionHash |-> "",
     message |-> "", fees |-> NoFees]

ErrorResponse(status, error, details) ==
    [NoResponse EXCEPT !.status = status, !.error = error, !.details = details]

SuccessResponse(signature, message, fees) ==
    [NoResponse EXCEPT !.status = 200, !.transactionHash = signature,
                       !.message = message, !.fees = fees]

\* a missing transaction answered from the catch block
MissingTransactionDataAsFailure ==
    ErrorResponse(500, "Failed to process transaction", NoDetails)

MissingTransactionData == ErrorResponse(400, "Missing transaction data", NoDetails)

\* the catch block: error.message, and error.logs when the error has them
\* a catch block that reports error.message alone
FailedToProcessWithoutLogs(error) ==
    ErrorResponse(500, "Failed to process transaction",
                  [errorMessage |-> error.message, logs |-> <<>>])

\* the catch block: details is error.message, followed by "Logs: " and the
\* log lines when the error carries logs
FailedToProcess(error) ==
    ErrorResponse(500, "Failed to process transaction",
                  [errorMessage |-> error.message, logs |-> error.logs])

DeserializeError == [message |-> "deserialize failed", logs |-> <<>>]
SignError == [message |-> "Cannot sign with non signer key", logs |-> <<>>]
BlockhashError == [message |-> "failed to get recent blockhash", logs |-> <<>>]

\* what connection.sendTransaction can answer
SendResults ==
    { [ok |-> TRUE, signature |-> "sig1", message |-> "", logs |-> <<>>],
      [ok |-> TRUE, signature |-> "sig2", message |-> "", logs |-> <<>>],
      [ok |-> FALSE, signature |-> "", message |-> "send failed", logs |-> <<>>],
      [ok |-> FALSE, signature |-> "", message |-> "simulation failed",
       logs |-> <<"log 1", "log 2">>] }
NoReply == [ok |-> FALSE, signature |-> "", message |-> "", logs |-> <<>>]

InvalidFeePayer(message) ==
    LET feePayer == AccountKeysGet(message, 0)
    IN ErrorResponse(403, "Invalid fee payer in transaction",
                     [expected |-> FEE_PAYER_ADDRESS,
                      received |-> IF feePayer = Undefined THEN "none" ELSE feePayer])

SponsorDebit ==
    ErrorResponse(403, "Transaction attempts to transfer funds from fee payer", NoDetails)

NotSignedBySender ==
    ErrorResponse(403, "Transaction not signed by sender",
                  [text |-> "The sender must sign the transaction"])

\* a 'Missing fee payment' answer that reports the threshold in place of
\* the expected total
MissingFeePaymentReportingThreshold(expectedTotalFee) ==
    ErrorResponse(403, "Missing fee payment",
                  [expectedTotalFee |-> (expectedTotalFee * FEE_MARGIN_PERCENT) \div 100,
                   address |-> FEE_COLLECTION_ADDRESS])

MissingFeePayment(expectedTotalFee) ==
    ErrorResponse(403, "Missing fee payment",
                  [expectedTotalFee |-> expectedTotalFee,
                   address |-> FEE_COLLECTION_ADDRESS])

InsufficientFeePayment(feePaymentAmount, expectedTotalFee) ==
    ErrorResponse(403, "Insufficient fee payment",
                  [feePaymentAmount |-> feePaymentAmount,
                   expectedTotalFee |-> expectedTotalFee])

----------------------------------------------------------------------------
(* The checks of the handlers *)

\* a fee-payer check that only looks for the presence of account key 0
FeePayerValidPresenceOnly(message) == AccountKeysGet(message, 0) # Undefined

\* !feePayer || feePayer.toBase58() !== FEE_PAYER_ADDRESS is false
FeePayerValid(message) ==
    LET feePayer == AccountKeysGet(message, 0)
    IN feePayer # Undefined /\ feePayer = FEE_PAYER_ADDRESS

\* the instruction targets the System Program and its first data byte is 2
IsSystemTransfer(message, instruction) ==
    LET programId == AccountKeysGet(message, instruction.programIdIndex)
    IN /\ programId # Undefined
       /\ programId = SYSTEM_PROGRAM_ID
       /\ FirstDataByte(instruction.data) = TRANSFER_COMMAND

\* the loop body of the no-fee controller and of validateTransaction: the
\* sender of a System transfer is the fee payer
DebitsFeePayer(feePayerAddress, message, instruction) ==
    LET senderAddress == AccountKeysGet(message, AccountKeyIndex(instruction, 0))
    IN /\ IsSystemTransfer(message, instruction)
       /\ senderAddress # Undefined
       /\ senderAddress = feePayerAddress

\* validateTransaction(feePayerAddress, accountKeys, instructions).valid
ValidateTransaction(feePayerAddress, message) ==
    \A k \in 1..Len(message.compiledInstructions) :
        ~DebitsFeePayer(feePayerAddress, message, message.compiledInstructions[k])

\* the no-fee controller's instruction loop runs to its end
NoFeeScanPasses(message) ==
    \A k \in 1..Len(message.compiledInstructions) :
        ~DebitsFeePayer(FEE_PAYER_ADDRESS, message, message.compiledInstructions[k])

\* the tracking variables of the fee-aware and fee-reporting loops
NoScan ==
    [transferAmount |-> 0, senderPublicKey |-> Undefined,
     recipientPublicKey |-> Undefined, foundTransfer |-> FALSE,
     feePaymentFound |-> FALSE, feePaymentAmount |-> 0, rejected |-> FALSE,
     collectFees |-> FALSE]

\* one iteration of the fee-aware controller's loop
FeeAwareStep(message, instruction, st) ==
    LET sender == AccountKeysGet(message, AccountKeyIndex(instruction, 0))
        recipient == AccountKeysGet(message, AccountKeyIndex(instruction, 1))
        amount == ExtractTransferAmount(instruction.data)
    IN IF ~IsSystemTransfer(message, instruction) THEN st
       ELSE IF sender = Undefined \/ recipient = Undefined THEN st
       ELSE IF sender = FEE_PAYER_ADDRESS THEN [st EXCEPT !.rejected = TRUE]
       ELSE IF recipient = FEE_COLLECTION_ADDRESS
            THEN [st EXCEPT !.feePaymentFound = TRUE, !.feePaymentAmount = amount]
            ELSE [st EXCEPT !.transferAmount = amount,
                            !.senderPublicKey = sender,
                            !.recipientPublicKey = recipient]

\* one iteration of the fee-reporting controller's loop
FeeReportingStep(message, instruction, st) ==
    LET sender == AccountKeysGet(message, AccountKeyIndex(instruction, 0))
        recipient == AccountKeysGet(message, AccountKeyIndex(instruction, 1))
        found == [st EXCEPT !.foundTransfer = TRUE,
                            !.senderPublicKey = sender,
                            !.recipientPublicKey = recipient]
    IN IF ~IsSystemTransfer(message, instruction) THEN st
       ELSE IF sender # Undefined /\ sender = FEE_PAYER_ADDRESS
            THEN [found EXCEPT !.rejected = TRUE]
            ELSE [found EXCEPT !.transferAmount = ExtractTransferAmount(instruction.data)]

\* for (const instruction of message.compiledInstructions), left at the
\* first return
RECURSIVE ScanFrom(_, _, _, _)
ScanFrom(which, message, k, st) ==
    IF k > Len(message.compiledInstructions) \/ st.rejected THEN st
    ELSE ScanFrom(which, message, k + 1,
                  IF which = "feeAware"
                  THEN FeeAwareStep(message, message.compiledInstructions[k], st)
                  ELSE FeeReportingStep(message, message.compiledInstructions[k], st))

FeeAwareScan(message) == ScanFrom("feeAware", message, 1, NoScan)
FeeReportingScan(message) == ScanFrom("feeReporting", message, 1, NoScan)

\* some key of the table equals the sender and is marked signer
SenderIsSigner(message, senderPublicKey) ==
    /\ senderPublicKey # Undefined
    /\ \E i \in 0..(Len(message.staticAccountKeys) - 1) :
          /\ AccountKeysGet(message, i) = senderPublicKey
          /\ IsAccountSigner(message, i)

----------------------------------------------------------------------------
(* The handlers, from the arrival of a request to the next await *)

\* the handler's state when a request arrives
Arrived ==
    [pc |-> "start", transaction |-> NoTransaction, scan |-> NoScan,
     feeInfo |-> NoFeeInfo, response |-> NoResponse, sendCalls |-> 0,
     submitted |-> <<>>]

\* return res.status(..).json(..)
Responded(o, resp) == [o EXCEPT !.pc = "done", !.response = resp]

\* transaction.sign([feePayerWallet]); connection.sendTransaction(transaction, ..),
\* up to the await of its answer
SignAndSend(o) ==
    IF CanSign(o.transaction)
    THEN [o EXCEPT !.pc = "awaitSend",
                   !.transaction = Sign(o.transaction),
                   !.sendCalls = o.sendCalls + 1,
                   !.submitted = Append(o.submitted, Sign(o.transaction))]
    ELSE Responded(o, FailedToProcess(SignError))

\* the no-fee controller
NoFeeSponsorTransaction(b) ==
    IF NoTransactionData(b) THEN Responded(Arrived, MissingTransactionData)
    ELSE IF b.kind = "garbage" THEN Responded(Arrived, FailedToProcess(DeserializeError))
    ELSE LET o == [Arrived EXCEPT !.transaction = Deserialize(b)]
             message == o.transaction.message
         IN IF ~FeePayerValid(message) THEN Responded(o, InvalidFeePayer(message))
            ELSE IF ~NoFeeScanPasses(message) THEN Responded(o, SponsorDebit)
            ELSE SignAndSend(o)

\* the fee-aware controller, up to await calculateAllFees(transferAmount)
FeeAwareSponsorTransaction(b) ==
    IF NoTransactionData(b) THEN Responded(Arrived, MissingTransactionData)
    ELSE IF b.kind = "garbage" THEN Responded(Arrived, FailedToProcess(DeserializeError))
    ELSE LET tx == Deserialize(b)
             message == tx.message
             st == FeeAwareScan(message)
             o == [Arrived EXCEPT !.transaction = tx]
             scanned == [o EXCEPT !.scan = st]
         IN IF ~FeePayerValid(message) THEN Responded(o, InvalidFeePayer(message))
            ELSE IF st.rejected THEN Responded(scanned, SponsorDebit)
            ELSE IF ~SenderIsSigner(message, st.senderPublicKey)
                 THEN Responded(scanned, NotSignedBySender)
                 ELSE [scanned EXCEPT !.pc = "awaitFees"]

\* a fee verification that signs before it looks at the fee payment
FeeAwareVerifyFeeSigningFirst(o, feeData) ==
    LET expectedTotalFee == feeData.totalFeeRequired
        minAcceptableFee == (expectedTotalFee * FEE_MARGIN_PERCENT) \div 100
        p == [o EXCEPT !.feeInfo = feeData,
                       !.transaction = IF CanSign(o.transaction)
                                       THEN Sign(o.transaction)
                                       ELSE o.transaction]
    IN IF ~o.scan.feePaymentFound
       THEN Responded(p, MissingFeePayment(expectedTotalFee))
       ELSE IF o.scan.feePaymentAmount < minAcceptableFee
            THEN Responded(p, InsufficientFeePayment(o.scan.feePaymentAmount,
                                                     expectedTotalFee))
            ELSE SignAndSend(p)

\* the fee-aware controller after calculateAllFees returned feeData
FeeAwareVerifyFee(o, feeData) ==
    LET expectedTotalFee == feeData.totalFeeRequired
        minAcceptableFee == MinAcceptableFee(expectedTotalFee)
        p == [o EXCEPT !.feeInfo = feeData]
    IN IF ~o.scan.feePaymentFound
       THEN Responded(p, MissingFeePayment(expectedTotalFee))
       ELSE IF o.scan.feePaymentAmount < minAcceptableFee
            THEN Responded(p, InsufficientFeePayment(o.scan.feePaymentAmount,
                                                     expectedTotalFee))
            ELSE SignAndSend(p)

\* the fee-reporting controller, up to await connection.getLatestBlockhash
\* or, when no fee can be collected, up to the await of sendTransaction
FeeReportingSponsorTransaction(b) ==
    IF NoTransactionData(b) THEN Responded(Arrived, MissingTransactionData)
    ELSE IF b.kind = "garbage" THEN Responded(Arrived, FailedToProcess(DeserializeError))
    ELSE LET tx == Deserialize(b)
             message == tx.message
             st == FeeReportingScan(message)
             fees == StaticFees(st.transferAmount)
             collect == /\ st.senderPublicKey # Undefined
                        /\ SenderIsSigner(message, st.senderPublicKey)
                        /\ fees.totalFeeRequired > 0
             o == [Arrived EXCEPT !.transaction = tx]
             scanned == [o EXCEPT !.scan = [st EXCEPT !.collectFees = collect],
                                  !.feeInfo = fees]
         IN IF ~FeePayerValid(message) THEN Responded(o, InvalidFeePayer(message))
            ELSE IF st.rejected THEN Responded([o EXCEPT !.scan = st], SponsorDebit)
            ELSE IF collect THEN [scanned EXCEPT !.pc = "awaitBlockhash"]
            ELSE SignAndSend(scanned)

\* the fee-reporting controller after getLatestBlockhash answered
FeeReportingAfterBlockhash(o, ok) ==
    IF ok THEN SignAndSend(o) ELSE Responded(o, FailedToProcess(BlockhashError))

\* a 200 response that leaves the transaction identifier out
SuccessWithoutHash(which, o, signature) ==
    SuccessResponse("", "Transaction sent successfully", NoFees)

\* the 200 response of each controller
Success(which, o, signature) ==
    IF which = "noFee"
    THEN SuccessResponse(signature, "Transaction sent successfully", NoFees)
    ELSE IF which = "feeAware"
    THEN SuccessResponse(signature, "Transaction sponsored successfully with fee payment",
             [originalTransferAmount |-> o.scan.transferAmount,
              serviceFeePercentage |-> SERVICE_FEE_PERCENTAGE,
              serviceFeeAmount |-> o.feeInfo.serviceFeeAmount,
              gasFeeReimbursement |-> o.feeInfo.gasFeeReimbursement,
              totalFeeRequired |-> 0,
              totalFeePaid |-> o.scan.feePaymentAmount])
    ELSE SuccessResponse(signature,
             IF o.scan.collectFees
             THEN "Transaction sponsored successfully. Note: In a production environment, we would also collect a service fee."
             ELSE "Transaction sponsored successfully, but fees not collected",
             [originalTransferAmount |-> o.scan.transferAmount,
              serviceFeePercentage |-> SERVICE_FEE_PERCENTAGE,
              serviceFeeAmount |-> o.feeInfo.serviceFeeAmount,
              gasFeeReimbursement |-> o.feeInfo.gasFeeReimbursement,
              totalFeeRequired |-> o.feeInfo.totalFeeRequired,
              totalFeePaid |-> 0])

\* a handler that submits a second time when the submission failed
AfterSendRetrying(which, o, result) ==
    IF result.ok
    THEN Responded(o, Success(which, o, result.signature))
    ELSE Responded([o EXCEPT !.sendCalls = o.sendCalls + 1,
                             !.submitted = Append(o.submitted, o.transaction)],
                   FailedToProcess([message |-> result.message, logs |-> result.logs]))

\* the handler after connection.sendTransaction answered
AfterSend(which, o, result) ==
    IF result.ok
    THEN Responded(o, Success(which, o, result.signature))
    ELSE Responded(o, FailedToProcess([message |-> result.message, logs |-> result.logs]))

----------------------------------------------------------------------------
(* The fee oracle: getCurrentFeeData and its cache *)

\* CACHE_DURATION_MS = 5 * 60 * 1000, in minutes
CACHE_DURATION == 5

\* the first clock reading of the process: Date.now() is more than a
\* freshness window away from the initial lastFeeDataUpdate = 0
ProcessStart == CACHE_DURATION

\* the last clock reading explored
MaxTime == 10

\* the callers of getCurrentFeeData that can be in flight together
Callers == {"caller1", "caller2"}

\* what the ledger client answers to estimateTransactionFee: a call that
\* throws, a fee whose value is null, or a fee
GasReplies ==
    { [kind |-> "throws", value |-> 0],
      [kind |-> "null", value |-> 0],
      [kind |-> "fee", value |-> DEFAULT_GAS_FEE + 1] }

\* what the price feed answers to getSolanaPrice: a fetch that throws, a
\* body without a solana object, a solana object without usd, or a price
PriceReplies ==
    { [kind |-> "throws", value |-> 0],
      [kind |-> "no solana", value |-> 0],
      [kind |-> "no usd", value |-> 0],
      [kind |-> "price", value |-> 10],
      [kind |-> "price", value |-> 150] }

\* an estimate that hands on the null value of the fee
EstimateTransactionFeeWithoutFallback(reply) ==
    IF reply.kind = "throws" THEN DEFAULT_GAS_FEE ELSE reply.value

\* estimateTransactionFee: the fee, 5000 when its value is null or the call
\* throws
EstimateTransactionFee(reply) ==
    IF reply.kind = "fee" THEN reply.value ELSE DEFAULT_GAS_FEE

\* getSolanaPrice: data.solana.usd, null when anything throws
GetSolanaPrice(reply) ==
    IF reply.kind = "price" THEN reply.value
    ELSE IF reply.kind = "no usd" THEN UndefinedPrice
    ELSE NoPrice

\* the FeeData built from the two answers
FreshFeeData(gasReply, priceReply) ==
    [gasFeeLamports |-> EstimateTransactionFee(gasReply),
     serviceFeePercentage |-> GetAdjustedServiceFeePercentage(GetSolanaPrice(priceReply)),
     solPriceUsd |-> GetSolanaPrice(priceReply)]

NoQuote == [gasFeeLamports |-> 0, serviceFeePercentage |-> 0, solPriceUsd |-> NoPrice]

\* feeDataCache = null
NoCache == [cached |-> FALSE]

NoGasReply == [kind |-> "none", value |-> 0]
NoPriceReply == [kind |-> "none", value |-> 0]

\* a caller that is not in getCurrentFeeData
NoCall ==
    [pc |-> "idle", started |-> 0, returnedAt |-> 0, upstream |-> FALSE,
     fromCache |-> FALSE, origin |-> 0, gasReply |-> NoGasReply,
     priceReply |-> NoPriceReply, result |-> NoQuote]

\* feeDataCache && (now - lastFeeDataUpdate < CACHE_DURATION_MS)
CacheIsFresh(cache, lastUpdate, time) ==
    cache # NoCache /\ time - lastUpdate < CACHE_DURATION

\* a stamp taken when the refresh completes
RefreshStampAtCompletion(call, time) == time

\* lastFeeDataUpdate = now, the reading taken when the call started
RefreshStamp(call, time) == call.started

\* getCurrentFeeData up to its return of the cache or to await Promise.all
GetCurrentFeeData(cache, lastUpdate, origin, time) ==
    IF CacheIsFresh(cache, lastUpdate, time)
    THEN [NoCall EXCEPT !.pc = "returned", !.started = time, !.returnedAt = time,
                        !.fromCache = TRUE, !.origin = origin, !.result = cache]
    ELSE [NoCall EXCEPT !.pc = "fetching", !.started = time, !.upstream = TRUE]

\* getCurrentFeeData after Promise.all resolved
GetCurrentFeeDataRefreshed(call, gasReply, priceReply, time) ==
    [call EXCEPT !.pc = "returned", !.returnedAt = time, !.origin = call.started,
                 !.gasReply = gasReply, !.priceReply = priceReply,
                 !.result = FreshFeeData(gasReply, priceReply)]

----------------------------------------------------------------------------
(* The sponsor's key at start-up and in the wallet-health check *)

\* what WALLET_PRIVATE_KEY can hold: nothing, the placeholder of the sample
\* .env, text that is no base58 secret key, or the sponsor's secret key
WalletKeys == {"missing", "placeholder", "invalid", "valid"}

\* the keys Keypair.generate() makes, one after the other, each a new one
MaxGenerated == 3
TemporaryKeys == <<"Temporary1", "Temporary2", "Temporary3", "Temporary4", "Temporary5">>

\* Keypair.generate() is reached: the variable is unset or the placeholder,
\* or bs58.decode / Keypair.fromSecretKey throws
GeneratesKey(key) == key # "valid"

\* the controller module's start-up: with a usable secret key no key is
\* generated; otherwise feePayerWallet is a generated key, and the name
\* Sponsor stands for it from then on
GeneratedAtStartup(key) == IF GeneratesKey(key) THEN 1 ELSE 0

\* getFeePayerWallet(): the key of WALLET_PRIVATE_KEY, or a key generated
\* for this call
GetFeePayerWallet(key, made) ==
    IF GeneratesKey(key) THEN TemporaryKeys[made + 1] ELSE Sponsor

\* the wallet address getWalletHealth reports
WalletAddress(key) == IF key = "valid" THEN Sponsor ELSE "Unknown"

\* what connection.getBalance answers, in lamports, or throws
BalanceReplies ==
    { [ok |-> FALSE, lamports |-> 0],
      [ok |-> TRUE, lamports |-> 0],
      [ok |-> TRUE, lamports |-> 100000000],
      [ok |-> TRUE, lamports |-> 100000001] }

\* minBalance = 0.1 SOL, in lamports
MIN_BALANCE == 100000000

\* checkFeePayerBalance after getBalance answered
CheckFeePayerBalance(reply) ==
    IF reply.ok
    THEN [hasBalance |-> reply.lamports > MIN_BALANCE, balance |-> reply.lamports]
    ELSE [hasBalance |-> FALSE, balance |-> 0]

NoHealthResponse == [status |-> 0, health |-> "", balance |-> 0, address |-> ""]
NoHealth == [pc |-> "idle", balanceOf |-> Undefined, response |-> NoHealthResponse]

\* getWalletHealth up to the await of connection.getBalance
GetWalletHealth(key, made) ==
    [NoHealth EXCEPT !.pc = "awaitBalance",
                     !.balanceOf = GetFeePayerWallet(key, made)]

\* getWalletHealth after checkFeePayerBalance returned
WalletHealthResponse(h, key, reply) ==
    LET checked == CheckFeePayerBalance(reply)
    IN [h EXCEPT !.pc = "done",
                 !.response = [status |-> 200,
                               health |-> IF checked.hasBalance THEN "healthy"
                                          ELSE "low_balance",
                               balance |-> checked.balance,
                               address |-> WalletAddress(key)]]

----------------------------------------------------------------------------
(* prepareFeeTransaction: the first step of the two-step protocol *)

\* recipientAddress and senderAddress of req.body: absent, text that is no
\* public key, or a key
NoAddress == ""
InvalidAddress == "not a public key"
Addresses == {NoAddress, InvalidAddress, UserA, UserB, Sponsor}

\* amount of req.body: absent, text that is no number, or the decimal text
\* of a number of SOL, kept as its count of tenths of a lamport
NoAmount == [kind |-> "missing", tenths |-> 0]
NotANumber == [kind |-> "text", tenths |-> 0]
Amount(tenths) == [kind |-> "number", tenths |-> tenths]
Amounts ==
    { NoAmount, NotANumber, Amount(0), Amount(10 * SmallAmount),
      Amount(10 * LargeAmount), Amount(10 * SmallAmount + 5) }

PrepareRequests ==
    [recipientAddress : Addresses, amount : Amounts, senderAddress : Addresses]

\* !recipientAddress || !amount || !senderAddress
MissingParameters(req) ==
    \/ req.recipientAddress = NoAddress
    \/ req.amount.kind = "missing"
    \/ req.senderAddress = NoAddress

\* parseFloat(amount) * LAMPORTS_PER_SOL is a whole number of lamports;
\* BigInt(lamports) of SystemProgram.transfer throws for NaN and fractions
IsWholeLamports(amount) == amount.kind = "number" /\ amount.tenths % 10 = 0
Lamports(amount) == amount.tenths \div 10

\* SystemProgram.transfer({fromPubkey, toPubkey, lamports})
TransferInstruction(fromPubkey, toPubkey, lamports) ==
    [programId |-> SYSTEM_PROGRAM_ID,
     keys |-> << [pubkey |-> fromPubkey, isSigner |-> TRUE, isWritable |-> TRUE],
                 [pubkey |-> toPubkey, isSigner |-> FALSE, isWritable |-> TRUE] >>,
     data |-> TransferData(lamports)]

\* the elements of a sequence in order of first appearance
RECURSIVE Distinct(_)
Distinct(s) ==
    IF s = <<>> THEN <<>>
    ELSE LET front == Distinct(SubSeq(s, 1, Len(s) - 1))
             last == s[Len(s)]
         IN IF \E i \in 1..Len(front) : front[i] = last THEN front
            ELSE Append(front, last)

\* the keys an instruction list mentions: per instruction its program id,
\* then its accounts
RECURSIVE MentionedKeys(_)
MentionedKeys(instructions) ==
    IF instructions = <<>> THEN <<>>
    ELSE LET ix == instructions[1]
         IN <<ix.programId>> \o [j \in 1..Len(ix.keys) |-> ix.keys[j].pubkey]
               \o MentionedKeys(Tail(instructions))

KeyPosition(keys, key) == CHOOSE i \in 0..(Len(keys) - 1) : keys[i + 1] = key

\* new TransactionMessage({payerKey, instructions}).compileToV0Message():
\* the payer first, then writable signers, read-only signers, writable
\* non-signers, read-only non-signers, each group in order of first mention
CompileToV0Message(payerKey, instructions) ==
    LET mentioned == Distinct(<<payerKey>> \o MentionedKeys(instructions))
        Metas(key) ==
            { meta \in UNION { { instructions[i].keys[j] :
                                    j \in 1..Len(instructions[i].keys) } :
                                i \in 1..Len(instructions) } :
                meta.pubkey = key }
        Signs(key) == key = payerKey \/ \E meta \in Metas(key) : meta.isSigner
        Writes(key) == key = payerKey \/ \E meta \in Metas(key) : meta.isWritable
        WritableSigner(key) == Signs(key) /\ Writes(key)
        ReadonlySigner(key) == Signs(key) /\ ~Writes(key)
        WritableNonSigner(key) == ~Signs(key) /\ Writes(key)
        ReadonlyNonSigner(key) == ~Signs(key) /\ ~Writes(key)
        keys == SelectSeq(mentioned, WritableSigner)
                   \o SelectSeq(mentioned, ReadonlySigner)
                   \o SelectSeq(mentioned, WritableNonSigner)
                   \o SelectSeq(mentioned, ReadonlyNonSigner)
    IN [staticAccountKeys |-> keys,
        numRequiredSignatures |->
            Len(SelectSeq(mentioned, WritableSigner))
               + Len(SelectSeq(mentioned, ReadonlySigner)),
        compiledInstructions |->
            [i \in 1..Len(instructions) |->
                [programIdIndex |-> KeyPosition(keys, instructions[i].programId),
                 accountKeyIndexes |->
                     [j \in 1..Len(instructions[i].keys) |->
                         KeyPosition(keys, instructions[i].keys[j].pubkey)],
                 data |-> instructions[i].data]]]

\* new VersionedTransaction(messageV0): every signature slot empty
UnsignedTransaction(message) ==
    [kind |-> "transaction", message |-> message,
     signatures |-> [i \in 1..message.numRequiredSignatures |-> NoSignature]]


\* the answers of prepareFeeTransaction
NoPrepareResponse ==
    [status |-> 0, error |-> "", preparedTransaction |-> NoTransaction,
     fees |-> NoFeeInfo, feeCollectionAddress |-> "", message |-> ""]

MissingRequiredParameters ==
    [NoPrepareResponse EXCEPT !.status = 400, !.error = "Missing required parameters"]

FailedToPrepare ==
    [NoPrepareResponse EXCEPT !.status = 500, !.error = "Failed to prepare transaction"]

Prepared(tx, fees) ==
    [NoPrepareResponse EXCEPT
        !.status = 200,
        !.preparedTransaction = tx,
        !.fees = fees,
        !.feeCollectionAddress = FEE_COLLECTION_ADDRESS,
        !.message = "Transaction prepared with fees. Sign this transaction and submit to the sponsor-transaction endpoint."]

\* the state of the prepare handler
NoPrepare ==
    [pc |-> "idle", request |-> [recipientAddress |-> NoAddress, amount |-> NoAmount,
                                 senderAddress |-> NoAddress],
     quote |-> NoQuote, response |-> NoPrepareResponse]

PrepareResponded(p, resp) == [p EXCEPT !.pc = "done", !.response = resp]

\* prepareFeeTransaction up to await calculateAllFees(transferAmount)
PrepareFeeTransaction(req) ==
    LET p == [NoPrepare EXCEPT !.request = req]
    IN IF MissingParameters(req) THEN PrepareResponded(p, MissingRequiredParameters)
       ELSE IF InvalidAddress \in {req.recipientAddress, req.senderAddress}
            THEN PrepareResponded(p, FailedToPrepare)
            ELSE [p EXCEPT !.pc = "awaitFees"]

\* calculateAllFees returned; up to await connection.getLatestBlockhash
PrepareAfterFees(p, quote) == [p EXCEPT !.pc = "awaitBlockhash", !.quote = quote]

\* a prepared transaction whose fee payment comes first
PreparedTransactionFeeFirst(req, totalFee) ==
    UnsignedTransaction(
        CompileToV0Message(Sponsor,
            << TransferInstruction(req.senderAddress, FEE_COLLECTION_ADDRESS,
                                   totalFee),
               TransferInstruction(req.senderAddress, req.recipientAddress,
                                   Lamports(req.amount)) >>))

\* the two instructions and the transaction built from them
PreparedTransaction(req, totalFee) ==
    UnsignedTransaction(
        CompileToV0Message(Sponsor,
            << TransferInstruction(req.senderAddress, req.recipientAddress,
                                   Lamports(req.amount)),
               TransferInstruction(req.senderAddress, FEE_COLLECTION_ADDRESS,
                                   totalFee) >>))

\* getLatestBlockhash answered; up to the response
PrepareAfterBlockhash(p, ok) ==
    LET feeInfoP == CalculateAllFees(p.quote, Lamports(p.request.amount))
    IN IF ~ok \/ ~IsWholeLamports(p.request.amount)
       THEN PrepareResponded(p, FailedToPrepare)
       ELSE PrepareResponded(p,
                Prepared(PreparedTransaction(p.request, feeInfoP.totalFeeRequired),
                         feeInfoP))

\* preparedTransaction.sign([testWallet]): the sender's slot gets the
\* sender's signature
Countersigned(tx, senderAddress) ==
    [tx EXCEPT !.signatures =
        [i \in DOMAIN tx.signatures |->
            IF tx.message.staticAccountKeys[i] = senderAddress
               /\ senderAddress # Sponsor
            THEN UserSignature
            ELSE tx.signatures[i]]]

----------------------------------------------------------------------------
(* Handlers in flight together: each call of a handler has its own locals *)

\* the requests that can be in flight together
Slots == {"request1", "request2"}

OtherSlot(r) == CHOOSE q \in Slots : q # r

TransactionOf(keys, n, instrs) ==
    [kind |-> "transaction",
     message |-> [staticAccountKeys |-> keys, numRequiredSignatures |-> n,
                  compiledInstructions |-> instrs],
     signatures |-> ClientSignatures(keys, n)]

\* bodies posted to /sponsor-transaction while another request is in flight:
\* undecodable bytes, a transfer with its fee payment, a large transfer with
\* a fee payment that is too small, a transfer from the sponsor, and a
\* transaction paid by the user
ConcurrentBodies ==
    { Garbage,
      TransactionOf(SponsorFirst, 2,
          << SystemInstruction(<<1, 2>>, TransferData(SmallAmount)),
             SystemInstruction(<<1, 0>>, TransferData(SmallAmount)) >>),
      TransactionOf(SponsorFirst, 2,
          << SystemInstruction(<<1, 2>>, TransferData(LargeAmount)),
             SystemInstruction(<<1, 0>>, TransferData(SmallAmount)) >>),
      TransactionOf(SponsorFirst, 2,
          << SystemInstruction(<<0, 2>>, TransferData(SmallAmount)) >>),
      TransactionOf(UserFirst, 2,
          << SystemInstruction(<<1, 2>>, TransferData(SmallAmount)) >>) }

\* bodies posted to /prepare-transaction meanwhile
ConcurrentPrepares ==
    { [recipientAddress |-> UserB, amount |-> Amount(10 * SmallAmount),
       senderAddress |-> UserA],
      [recipientAddress |-> UserB, amount |-> Amount(10 * LargeAmount),
       senderAddress |-> UserB],
      [recipientAddress |-> UserB, amount |-> NoAmount, senderAddress |-> UserA] }

\* the quotes a refresh brings back meanwhile
ConcurrentQuotes == { q \in FeeQuotes : q.solPriceUsd \in {NoPrice, 150} }

\* no handler runs in the slot
NoRequest ==
    [kind |-> "none", body |-> Missing, o |-> [Arrived EXCEPT !.pc = "idle"],
     p |-> NoPrepare, cached |-> FALSE, quote |-> NoQuote, reply |-> NoReply,
     blockhash |-> "none"]

\* calculateAllFees calls getCurrentFeeData, which runs up to its return of
\* the fresh cache or to its own await before the handler is suspended
ReadCache(req, cache, lastUpdate, time) ==
    IF CacheIsFresh(cache, lastUpdate, time)
    THEN [req EXCEPT !.cached = TRUE, !.quote = cache]
    ELSE req

\* a sponsorTransaction call up to its first await
ConcurrentSponsorTransaction(b, cache, lastUpdate, time) ==
    LET req == [NoRequest EXCEPT !.kind = "sponsor", !.body = b,
                                 !.o = FeeAwareSponsorTransaction(b)]
    IN IF req.o.pc = "awaitFees" THEN ReadCache(req, cache, lastUpdate, time)
       ELSE req

\* a prepareFeeTransaction call up to its first await
ConcurrentPrepareFeeTransaction(prepareRequest, cache, lastUpdate, time) ==
    LET req == [NoRequest EXCEPT !.kind = "prepare",
                                 !.p = PrepareFeeTransaction(prepareRequest)]
    IN IF req.p.pc = "awaitFees" THEN ReadCache(req, cache, lastUpdate, time)
       ELSE req

\* tracking variables kept at module level, where the call that arrived last
\* overwrites them
ModuleLevelLocals(reqs, r) ==
    IF reqs[OtherSlot(r)].kind = "sponsor"
    THEN [reqs[r].o EXCEPT !.scan = reqs[OtherSlot(r)].o.scan]
    ELSE reqs[r].o

\* the variables a resumed call finds: those of its own closure
Locals(reqs, r) == reqs[r].o

\* a call resumes from await calculateAllFees(..) with the quote
ResumeWithQuote(reqs, r, quote) ==
    IF reqs[r].kind = "sponsor"
    THEN [reqs[r] EXCEPT
            !.quote = quote,
            !.o = FeeAwareVerifyFee(Locals(reqs, r),
                      CalculateAllFees(quote, Locals(reqs, r).scan.transferAmount))]
    ELSE [reqs[r] EXCEPT !.quote = quote, !.p = PrepareAfterFees(reqs[r].p, quote)]

----------------------------------------------------------------------------
(* Registration, login and the wallet operations on a user's derived key *)

\* the usernames of req.body; NoUsername is an absent one
NoUsername == ""
Usernames == {"alice", "bob"}

\* the session tokens crypto.randomBytes(32) makes, one after the other
MaxTokens == 2
TokenNames == <<"token1", "token2", "token3", "token4">>

\* what a request can carry in its Authorization header: nothing, a token
\* the server never issued, or an issued token
NoToken == ""
ForgedToken == "forged"
PresentedTokens == {NoToken, ForgedToken} \cup { TokenNames[i] : i \in 1..MaxTokens }

\* isValidToken(token)
IsValidToken(token, stored) == token \in stored

\* the wallet operations of the wallet router
WalletOperations == {"getWalletInfo", "transfer", "signMessage", "requestAirdrop"}

NoWalletOperation ==
    [operation |-> "none", username |-> NoUsername, token |-> NoToken,
     status |-> 0, keyOf |-> NoUsername]

\* authenticateUser: next() is called for a header that carries a stored
\* token; every other request is answered 401
AuthenticateUser(token, stored) == token # NoToken /\ IsValidToken(token, stored)

\* a route of the wallet router: the handler is called directly.  It
\* answers 404 for an unknown username and 500 when no credential is stored
\* or the ledger call fails; otherwise it derives the user's private key
\* from the stored credential id and acts with it
WalletRoute(operation, username, token, stored, registered, withCredential, upstreamOk) ==
    [operation |-> operation, username |-> username, token |-> token,
     status |-> IF username \notin registered THEN 404
                ELSE IF username \notin withCredential \/ ~upstreamOk THEN 500
                ELSE 200,
     keyOf |-> IF username \in registered /\ username \in withCredential
               THEN username ELSE NoUsername]

----------------------------------------------------------------------------
(* The state machine *)

Current ==
    [pc |-> pc, transaction |-> transaction, scan |-> scan, feeInfo |-> feeInfo,
     response |-> response, sendCalls |-> sendCalls, submitted |-> submitted]

Becomes(o) ==
    /\ pc' = o.pc
    /\ transaction' = o.transaction
    /\ scan' = o.scan
    /\ feeInfo' = o.feeInfo
    /\ response' = o.response
    /\ sendCalls' = o.sendCalls
    /\ submitted' = o.submitted
    /\ UNCHANGED <<prep, oracleVars, serverVars>>

Init ==
    /\ variant \in Variants
    /\ pc = "idle"
    /\ body = Missing
    /\ transaction = NoTransaction
    /\ scan = NoScan
    /\ feeInfo = NoFeeInfo
    /\ response = NoResponse
    /\ sendCalls = 0
    /\ submitted = <<>>
    /\ ledgerReply = NoReply
    /\ prep = NoPrepare
    /\ feeDataCache = NoCache
    /\ lastFeeDataUpdate = 0
    /\ cacheRefreshStarted = 0
    /\ now = ProcessStart
    /\ calls = [c \in Callers |-> NoCall]
    /\ walletKey = "valid"
    /\ generated = 0
    /\ health = NoHealth
    /\ requests = [r \in Slots |-> NoRequest]
    /\ users = {}
    /\ authenticators = {}
    /\ challenges = {}
    /\ tokens = {}
    /\ issued = 0
    /\ walletOperation = NoWalletOperation

\* POST /sponsor-transaction reaches the deployed controller
SponsorTransactionNoFee ==
    /\ variant = "noFee"
    /\ pc = "idle"
    /\ \E b \in Bodies :
          /\ body' = b
          /\ Becomes(NoFeeSponsorTransaction(b))
    /\ ledgerReply' = NoReply
    /\ UNCHANGED variant

SponsorTransactionFeeAware ==
    /\ variant = "feeAware"
    /\ pc = "idle"
    /\ \E b \in Bodies :
          /\ body' = b
          /\ Becomes(FeeAwareSponsorTransaction(b))
    /\ ledgerReply' = NoReply
    /\ UNCHANGED variant

SponsorTransactionFeeReporting ==
    /\ variant = "feeReporting"
    /\ pc = "idle"
    /\ \E b \in Bodies :
          /\ body' = b
          /\ Becomes(FeeReportingSponsorTransaction(b))
    /\ ledgerReply' = NoReply
    /\ UNCHANGED variant

\* await calculateAllFees(transferAmount) resumes with the quote it read
CalculateAllFeesReturns ==
    /\ pc = "awaitFees"
    /\ \E quote \in FeeQuotes :
          Becomes(FeeAwareVerifyFee(Current, CalculateAllFees(quote, scan.transferAmount)))
    /\ UNCHANGED <<variant, body, ledgerReply>>

\* await connection.getLatestBlockhash('confirmed') resumes or throws
GetLatestBlockhashReturns ==
    /\ pc = "awaitBlockhash"
    /\ \E ok \in BOOLEAN : Becomes(FeeReportingAfterBlockhash(Current, ok))
    /\ UNCHANGED <<variant, body, ledgerReply>>

\* await connection.sendTransaction(..) resumes or throws
SendTransactionReturns ==
    /\ pc = "awaitSend"
    /\ \E result \in SendResults :
          /\ ledgerReply' = result
          /\ Becomes(AfterSend(variant, Current, result))
    /\ UNCHANGED <<variant, body>>

\* the response is on the wire and the handler's objects are dropped; the
\* process waits for the next request
RequestCompletes ==
    /\ pc = "done"
    /\ body' = Missing
    /\ Becomes([Arrived EXCEPT !.pc = "idle"])
    /\ ledgerReply' = NoReply
    /\ UNCHANGED variant

Next ==
    \/ SponsorTransactionNoFee
    \/ SponsorTransactionFeeAware
    \/ SponsorTransactionFeeReporting
    \/ CalculateAllFeesReturns
    \/ GetLatestBlockhashReturns
    \/ SendTransactionReturns
    \/ RequestCompletes

Spec == Init /\ [][Next]_vars

\* the same machine with the progress the run-time guarantees: a response
\* handed to res.json is sent.  No handler sets a timer or a deadline on an
\* upstream call, so nothing guarantees that an awaited call resumes
LiveSpec == Init /\ [][Next]_vars /\ WF_vars(RequestCompletes)

----------------------------------------------------------------------------
(* The two-step protocol: prepare, countersign, submit to the fee-aware
   controller *)

PrepareInit == Init /\ variant = "feeAware"

\* POST /prepare-transaction
PrepareFeeTransactionArrives ==
    /\ pc = "idle"
    /\ prep.pc = "idle"
    /\ \E req \in PrepareRequests : prep' = PrepareFeeTransaction(req)
    /\ UNCHANGED <<sponsorVars, oracleVars, serverVars>>

\* await calculateAllFees(transferAmount) of the prepare handler resumes
PrepareCalculateAllFeesReturns ==
    /\ prep.pc = "awaitFees"
    /\ \E quote \in FeeQuotes : prep' = PrepareAfterFees(prep, quote)
    /\ UNCHANGED <<sponsorVars, oracleVars, serverVars>>

\* await connection.getLatestBlockhash('confirmed') of the prepare handler
\* resumes or throws
PrepareGetLatestBlockhashReturns ==
    /\ prep.pc = "awaitBlockhash"
    /\ \E ok \in BOOLEAN : prep' = PrepareAfterBlockhash(prep, ok)
    /\ UNCHANGED <<sponsorVars, oracleVars, serverVars>>

\* the client countersigns the prepared transaction and posts it to
\* /sponsor-transaction
SponsorTransactionPrepared ==
    /\ pc = "idle"
    /\ prep.pc = "done"
    /\ prep.response.status = 200
    /\ body' = Countersigned(prep.response.preparedTransaction,
                             prep.request.senderAddress)
    /\ Becomes(FeeAwareSponsorTransaction(body'))
    /\ ledgerReply' = NoReply
    /\ UNCHANGED variant

\* the client drops the prepared transaction
PrepareCompletes ==
    /\ pc = "idle"
    /\ prep.pc = "done"
    /\ prep' = NoPrepare
    /\ UNCHANGED <<sponsorVars, oracleVars, serverVars>>

PrepareNext ==
    \/ PrepareFeeTransactionArrives
    \/ PrepareCalculateAllFeesReturns
    \/ PrepareGetLatestBlockhashReturns
    \/ SponsorTransactionPrepared
    \/ CalculateAllFeesReturns
    \/ SendTransactionReturns
    \/ RequestCompletes
    \/ PrepareCompletes

PrepareSpec == PrepareInit /\ [][PrepareNext]_vars

----------------------------------------------------------------------------
(* The fee oracle under concurrent callers *)

OracleInit == Init /\ variant = "feeAware"

\* a caller enters getCurrentFeeData: it reads the clock and either returns
\* the cache or starts both upstream calls
GetCurrentFeeDataCalled(c) ==
    /\ calls[c].pc = "idle"
    /\ calls' = [calls EXCEPT
                   ![c] = GetCurrentFeeData(feeDataCache, lastFeeDataUpdate,
                                            cacheRefreshStarted, now)]
    /\ UNCHANGED <<feeDataCache, lastFeeDataUpdate, cacheRefreshStarted, now>>
    /\ UNCHANGED <<sponsorVars, prep, serverVars>>

\* Promise.all resolves for a caller: the cache and its stamp are replaced
RefreshCompletes(c) ==
    /\ calls[c].pc = "fetching"
    /\ \E gasReply \in GasReplies, priceReply \in PriceReplies :
         /\ calls' = [calls EXCEPT
                        ![c] = GetCurrentFeeDataRefreshed(calls[c], gasReply,
                                                          priceReply, now)]
         /\ feeDataCache' = FreshFeeData(gasReply, priceReply)
    /\ lastFeeDataUpdate' = RefreshStamp(calls[c], now)
    /\ cacheRefreshStarted' = calls[c].started
    /\ UNCHANGED now
    /\ UNCHANGED <<sponsorVars, prep, serverVars>>

\* the caller goes on with the quote it was given
CallerResumes(c) ==
    /\ calls[c].pc = "returned"
    /\ calls' = [calls EXCEPT ![c] = NoCall]
    /\ UNCHANGED <<feeDataCache, lastFeeDataUpdate, cacheRefreshStarted, now>>
    /\ UNCHANGED <<sponsorVars, prep, serverVars>>

\* Date.now() advances
Tick ==
    /\ now < MaxTime
    /\ now' = now + 1
    /\ UNCHANGED <<feeDataCache, lastFeeDataUpdate, cacheRefreshStarted, calls>>
    /\ UNCHANGED <<sponsorVars, prep, serverVars>>

OracleNext ==
    \/ \E c \in Callers : GetCurrentFeeDataCalled(c)
    \/ \E c \in Callers : RefreshCompletes(c)
    \/ \E c \in Callers : CallerResumes(c)
    \/ Tick

OracleSpec == OracleInit /\ [][OracleNext]_vars

----------------------------------------------------------------------------
(* calculateAllFees over amounts around the points where the fee changes *)

\* transfer amounts in lamports: none, small ones, and the neighbours of the
\* amounts at which 0.7%, 0.5% and 0.3% of the amount reach the minimum fee
FeeAmounts ==
    {0, 1, SmallAmount, 714285, 714286, 714287, 1000000, 1000001, 1000200,
     1666666, 1666667, 1666668, 2000000, LargeAmount, LargeAmount + 1, 5000000}

\* reference prices in dollars: none, and prices inside and at the limits of
\* the bands
BandPrices == {NoPrice, 0, 1, 10, 19, 20, 21, 50, 99, 100, 101, 150}

\* the quotes a refresh builds from those prices
BandQuotes ==
    { [gasFeeLamports |-> g,
       serviceFeePercentage |-> GetAdjustedServiceFeePercentage(p),
       solPriceUsd |-> p] : g \in GasEstimates, p \in BandPrices }

FeeInit == Init /\ variant = "feeAware"

\* calculateAllFees(transferAmountLamports) with the quote getCurrentFeeData
\* gave it
CalculateAllFeesCalled ==
    /\ pc = "idle"
    /\ \E quote \in BandQuotes, amount \in FeeAmounts :
          feeInfo' = CalculateAllFees(quote, amount)
    /\ UNCHANGED <<variant, pc, body, transaction, scan, response, sendCalls,
                   submitted, ledgerReply>>
    /\ UNCHANGED <<prep, oracleVars, serverVars>>

FeeNext == CalculateAllFeesCalled

FeeSpec == FeeInit /\ [][FeeNext]_vars

----------------------------------------------------------------------------
(* The process from start-up: the two-step protocol and the health check *)

WalletInit ==
    /\ variant = "feeAware"
    /\ pc = "idle"
    /\ body = Missing
    /\ transaction = NoTransaction
    /\ scan = NoScan
    /\ feeInfo = NoFeeInfo
    /\ response = NoResponse
    /\ sendCalls = 0
    /\ submitted = <<>>
    /\ ledgerReply = NoReply
    /\ prep = NoPrepare
    /\ feeDataCache = NoCache
    /\ lastFeeDataUpdate = 0
    /\ cacheRefreshStarted = 0
    /\ now = ProcessStart
    /\ calls = [c \in Callers |-> NoCall]
    /\ walletKey \in WalletKeys
    /\ generated = GeneratedAtStartup(walletKey)
    /\ health = NoHealth
    /\ requests = [r \in Slots |-> NoRequest]
    /\ users = {}
    /\ authenticators = {}
    /\ challenges = {}
    /\ tokens = {}
    /\ issued = 0
    /\ walletOperation = NoWalletOperation

\* GET /wallet/health arrives
GetWalletHealthCalled ==
    /\ health.pc = "idle"
    /\ GeneratesKey(walletKey) => generated < MaxGenerated
    /\ health' = GetWalletHealth(walletKey, generated)
    /\ generated' = IF GeneratesKey(walletKey) THEN generated + 1 ELSE generated
    /\ UNCHANGED walletKey
    /\ UNCHANGED <<sponsorVars, prep, oracleVars, requests, authVars>>

\* await connection.getBalance(..) resumes or throws
GetBalanceReturns ==
    /\ health.pc = "awaitBalance"
    /\ \E reply \in BalanceReplies :
          health' = WalletHealthResponse(health, walletKey, reply)
    /\ UNCHANGED <<walletKey, generated>>
    /\ UNCHANGED <<sponsorVars, prep, oracleVars, requests, authVars>>

\* the health answer is on the wire
WalletHealthCompletes ==
    /\ health.pc = "done"
    /\ health' = NoHealth
    /\ UNCHANGED <<walletKey, generated>>
    /\ UNCHANGED <<sponsorVars, prep, oracleVars, requests, authVars>>

WalletNext ==
    \/ PrepareFeeTransactionArrives
    \/ PrepareCalculateAllFeesReturns
    \/ PrepareGetLatestBlockhashReturns
    \/ SponsorTransactionPrepared
    \/ PrepareCompletes
    \/ CalculateAllFeesReturns
    \/ SendTransactionReturns
    \/ RequestCompletes
    \/ GetWalletHealthCalled
    \/ GetBalanceReturns
    \/ WalletHealthCompletes

WalletSpec == WalletInit /\ [][WalletNext]_vars

----------------------------------------------------------------------------
(* Requests in flight together on the fee-aware controller *)

ConcurrentInit == Init /\ variant = "feeAware"

AwaitsFees(r) ==
    \/ requests[r].kind = "sponsor" /\ requests[r].o.pc = "awaitFees"
    \/ requests[r].kind = "prepare" /\ requests[r].p.pc = "awaitFees"

\* POST /sponsor-transaction arrives while the other slot is at any point
ConcurrentSponsorTransactionArrives(r) ==
    /\ requests[r].kind = "none"
    /\ \E b \in ConcurrentBodies :
          requests' = [requests EXCEPT
                         ![r] = ConcurrentSponsorTransaction(b, feeDataCache,
                                    lastFeeDataUpdate, now)]
    /\ UNCHANGED <<sponsorVars, prep, oracleVars, walletVars, authVars>>

\* POST /prepare-transaction arrives
ConcurrentPrepareFeeTransactionArrives(r) ==
    /\ requests[r].kind = "none"
    /\ \E prepareRequest \in ConcurrentPrepares :
          requests' = [requests EXCEPT
                         ![r] = ConcurrentPrepareFeeTransaction(prepareRequest,
                                    feeDataCache, lastFeeDataUpdate, now)]
    /\ UNCHANGED <<sponsorVars, prep, oracleVars, walletVars, authVars>>

\* await calculateAllFees(..) resumes: with the cached quote read at the
\* call, or with the quote of this call's own refresh, which becomes the cache
ConcurrentCalculateAllFeesReturns(r) ==
    /\ AwaitsFees(r)
    /\ IF requests[r].cached
       THEN /\ requests' = [requests EXCEPT
                              ![r] = ResumeWithQuote(requests, r, requests[r].quote)]
            /\ UNCHANGED <<feeDataCache, lastFeeDataUpdate, cacheRefreshStarted>>
       ELSE \E quote \in ConcurrentQuotes :
               /\ requests' = [requests EXCEPT
                                 ![r] = ResumeWithQuote(requests, r, quote)]
               /\ feeDataCache' = quote
               /\ lastFeeDataUpdate' = now
               /\ cacheRefreshStarted' = now
    /\ UNCHANGED <<now, calls>>
    /\ UNCHANGED <<sponsorVars, prep, walletVars, authVars>>

\* await connection.getLatestBlockhash(..) of a prepare call resumes or throws
ConcurrentGetLatestBlockhashReturns(r) ==
    /\ requests[r].kind = "prepare"
    /\ requests[r].p.pc = "awaitBlockhash"
    /\ \E ok \in BOOLEAN :
          requests' = [requests EXCEPT
                         ![r].p = PrepareAfterBlockhash(requests[r].p, ok),
                         ![r].blockhash = IF ok THEN "ok" ELSE "throws"]
    /\ UNCHANGED <<sponsorVars, prep, oracleVars, walletVars, authVars>>

\* await connection.sendTransaction(..) of a sponsor call resumes or throws
ConcurrentSendTransactionReturns(r) ==
    /\ requests[r].kind = "sponsor"
    /\ requests[r].o.pc = "awaitSend"
    /\ \E result \in SendResults :
          requests' = [requests EXCEPT
                         ![r].o = AfterSend("feeAware", Locals(requests, r), result),
                         ![r].reply = result]
    /\ UNCHANGED <<sponsorVars, prep, oracleVars, walletVars, authVars>>

\* the response of a call is on the wire
ConcurrentRequestCompletes(r) ==
    /\ \/ requests[r].kind = "sponsor" /\ requests[r].o.pc = "done"
       \/ requests[r].kind = "prepare" /\ requests[r].p.pc = "done"
    /\ requests' = [requests EXCEPT ![r] = NoRequest]
    /\ UNCHANGED <<sponsorVars, prep, oracleVars, walletVars, authVars>>

ConcurrentNext ==
    \/ \E r \in Slots : ConcurrentSponsorTransactionArrives(r)
    \/ \E r \in Slots : ConcurrentPrepareFeeTransactionArrives(r)
    \/ \E r \in Slots : ConcurrentCalculateAllFeesReturns(r)
    \/ \E r \in Slots : ConcurrentGetLatestBlockhashReturns(r)
    \/ \E r \in Slots : ConcurrentSendTransactionReturns(r)
    \/ \E r \in Slots : ConcurrentRequestCompletes(r)

ConcurrentSpec == ConcurrentInit /\ [][ConcurrentNext]_vars

----------------------------------------------------------------------------
(* The auth and wallet routers *)

AuthInit == Init /\ variant = "feeAware"

AuthUnchanged == UNCHANGED <<sponsorVars, prep, oracleVars, walletVars, requests>>

\* POST /register with a new username: the user is stored and a
\* registration challenge is kept
Register(username) ==
    /\ username \notin users
    /\ users' = users \cup {username}
    /\ challenges' = challenges \cup {username}
    /\ UNCHANGED <<authenticators, tokens, issued, walletOperation>>
    /\ AuthUnchanged

\* POST /register/verify: a response that verifies against the stored
\* challenge stores the credential and removes the challenge
VerifyRegistration(username, verified) ==
    /\ username \in users
    /\ verified => username \in challenges
    /\ authenticators' = IF verified THEN authenticators \cup {username}
                         ELSE authenticators
    /\ challenges' = IF verified THEN challenges \ {username} ELSE challenges
    /\ UNCHANGED <<users, tokens, issued, walletOperation>>
    /\ AuthUnchanged

\* POST /login of a user with a credential: a challenge is kept
Login(username) ==
    /\ username \in users
    /\ username \in authenticators
    /\ challenges' = challenges \cup {username}
    /\ UNCHANGED <<users, authenticators, tokens, issued, walletOperation>>
    /\ AuthUnchanged

\* POST /login/verify: a response that verifies against the stored
\* challenge and credential gets a new session token, which is stored
VerifyAuthentication(username, verified) ==
    /\ username \in users
    /\ username \in authenticators
    /\ verified => (username \in challenges /\ issued < MaxTokens)
    /\ tokens' = IF verified THEN tokens \cup {TokenNames[issued + 1]} ELSE tokens
    /\ issued' = IF verified THEN issued + 1 ELSE issued
    /\ challenges' = IF verified THEN challenges \ {username} ELSE challenges
    /\ UNCHANGED <<users, authenticators, walletOperation>>
    /\ AuthUnchanged

\* POST on a route of the wallet router, with any username and any header
WalletRequest(operation, username, token, upstreamOk) ==
    /\ walletOperation' = WalletRoute(operation, username, token, tokens, users,
                                      authenticators, upstreamOk)
    /\ UNCHANGED <<users, authenticators, challenges, tokens, issued>>
    /\ AuthUnchanged

AuthNext ==
    \/ \E username \in Usernames : Register(username)
    \/ \E username \in Usernames, verified \in BOOLEAN :
          VerifyRegistration(username, verified)
    \/ \E username \in Usernames : Login(username)
    \/ \E username \in Usernames, verified \in BOOLEAN :
          VerifyAuthentication(username, verified)
    \/ \E operation \in WalletOperations, username \in Usernames,
          token \in PresentedTokens, upstreamOk \in BOOLEAN :
          WalletRequest(operation, username, token, upstreamOk)

AuthSpec == AuthInit /\ [][AuthNext]_vars

----------------------------------------------------------------------------
(* Vocabulary of the properties: what a submitted transaction contains *)

\* a request is being handled, or has just been answered
InRequest == pc # "idle"

\* the body decodes to a transaction
Decoded == body.kind = "transaction"

\* the transaction object carries the sponsor's signature
SponsorSigned(tx) ==
    /\ tx.kind = "transaction"
    /\ \E i \in DOMAIN tx.signatures : tx.signatures[i] = SponsorSignature

\* account key 0 of the submitted message is the sponsor's key
FeePayerIsSponsor(m) ==
    Len(m.staticAccountKeys) > 0 /\ m.staticAccountKeys[1] = Sponsor

\* instruction k of the message is a System-Program instruction whose first
\* data byte is the transfer command
TransferAt(m, k) ==
    LET ins == m.compiledInstructions[k]
    IN /\ ins.programIdIndex \in 0..(Len(m.staticAccountKeys) - 1)
       /\ m.staticAccountKeys[ins.programIdIndex + 1] = SYSTEM_PROGRAM_ID
       /\ ins.data.len > 0
       /\ ins.data.op = TRANSFER_COMMAND

\* the key the n-th account reference (n = 1, 2) of instruction k resolves
\* to in the static table, Undefined when it is missing or unresolvable
AccountAt(m, k, n) ==
    LET ins == m.compiledInstructions[k]
    IN IF /\ n <= Len(ins.accountKeyIndexes)
          /\ ins.accountKeyIndexes[n] \in 0..(Len(m.staticAccountKeys) - 1)
       THEN m.staticAccountKeys[ins.accountKeyIndexes[n] + 1]
       ELSE Undefined

\* the first account reference of instruction k is marked signer in the header
FirstAccountSigns(m, k) ==
    LET ins == m.compiledInstructions[k]
    IN Len(ins.accountKeyIndexes) > 0 /\ ins.accountKeyIndexes[1] < m.numRequiredSignatures

\* the lamports written into the data of instruction k
AmountAt(m, k) ==
    LET d == m.compiledInstructions[k].data
    IN IF d.len >= TRANSFER_DATA_LENGTH THEN d.amt ELSE 0

InstructionIndices(m) == 1..Len(m.compiledInstructions)

\* the request was answered with this status and error text
Answered(status, error) ==
    pc = "done" /\ response.status = status /\ response.error = error

\* nothing of this request was signed by the sponsor or handed to the ledger
NeverSignedNorSent ==
    ~SponsorSigned(transaction) /\ sendCalls = 0 /\ submitted = <<>>

----------------------------------------------------------------------------
(* C1 *)

\* C1: a decoded transaction whose account key 0 is absent or is not the
\* sponsor's key is answered 403 'Invalid fee payer in transaction' with the
\* expected and the received key, with any controller, and in that request
\* the sponsor does not sign and sendTransaction is not called.
C1_InvalidFeePayerRejected ==
    (InRequest /\ Decoded /\ ~FeePayerIsSponsor(body.message)) =>
        /\ Answered(403, "Invalid fee payer in transaction")
        /\ response.details =
              [expected |-> Sponsor,
               received |-> IF Len(body.message.staticAccountKeys) = 0
                            THEN "none"
                            ELSE body.message.staticAccountKeys[1]]
        /\ NeverSignedNorSent

\* a transaction whose key 0 is a user's key was rejected by the fee-aware controller
C1_Witness ==
    /\ variant = "feeAware"
    /\ Decoded
    /\ Len(body.message.staticAccountKeys) > 0
    /\ body.message.staticAccountKeys[1] = UserA
    /\ Len(body.message.compiledInstructions) = MaxInstr
    /\ Answered(403, "Invalid fee payer in transaction")

----------------------------------------------------------------------------
(* C2 *)

\* C2: a transaction with fee payer = sponsor that contains, at any
\* position, a System transfer whose first account is the sponsor's key is
\* answered 403 'Transaction attempts to transfer funds from fee payer' and
\* is neither signed nor submitted, whatever its other accounts are.
C2_SponsorDebitRejected ==
    ( /\ InRequest
      /\ Decoded
      /\ FeePayerIsSponsor(body.message)
      /\ \E k \in InstructionIndices(body.message) :
            TransferAt(body.message, k) /\ AccountAt(body.message, k, 1) = Sponsor ) =>
        /\ Answered(403, "Transaction attempts to transfer funds from fee payer")
        /\ NeverSignedNorSent

\* the fee-aware controller signed and submitted a transaction that holds a
\* System transfer from the sponsor
C2_DebitSigned ==
    /\ variant = "feeAware"
    /\ Decoded
    /\ \E k \in InstructionIndices(body.message) :
          TransferAt(body.message, k) /\ AccountAt(body.message, k, 1) = Sponsor
    /\ SponsorSigned(transaction)
    /\ sendCalls = 1

----------------------------------------------------------------------------
(* C3 *)

\* the checks of the deployed controller that precede signing all passed
\* for the transaction being handled
ChecksPassed ==
    LET m == transaction.message
    IN /\ FeePayerValid(m)
       /\ variant = "noFee" => NoFeeScanPasses(m)
       /\ variant = "feeReporting" => ~FeeReportingScan(m).rejected
       /\ variant = "feeAware" =>
             /\ ~FeeAwareScan(m).rejected
             /\ SenderIsSigner(m, FeeAwareScan(m).senderPublicKey)
             /\ feeInfo # NoFeeInfo
             /\ FeeAwareScan(m).feePaymentFound
             /\ FeeAwareScan(m).feePaymentAmount >= MinAcceptableFee(feeInfo.totalFeeRequired)

----------------------------------------------------------------------------
(* C4 *)

\* C4: no transaction that carries the sponsor's signature holds an
\* instruction, of any program and opcode, whose first (funding) account is
\* the sponsor's key.
C4_NoSponsorFundedInstruction ==
    SponsorSigned(transaction) =>
        \A k \in InstructionIndices(transaction.message) :
            AccountAt(transaction.message, k, 1) # Sponsor

----------------------------------------------------------------------------
(* C5 *)

\* instruction k is a System transfer to the fee-collection address
FeeTransferAt(m, k) ==
    TransferAt(m, k) /\ AccountAt(m, k, 2) = FEE_COLLECTION_ADDRESS

\* calculateAllFees has returned to the fee-aware handler
FeeQuoted == variant = "feeAware" /\ pc \in {"awaitSend", "done"} /\ feeInfo # NoFeeInfo

\* C5 as claimed: the fee payment of a signed transaction is at least the
\* exact value totalFee * 0.95, and a fee payment below that exact value is
\* answered 403 'Insufficient fee payment' and not signed.
C5_ExactMargin ==
    variant = "feeAware" =>
        /\ SponsorSigned(transaction) =>
              scan.feePaymentAmount * 100 >= feeInfo.totalFeeRequired * 95
        /\ (FeeQuoted /\ scan.feePaymentFound
              /\ scan.feePaymentAmount * 100 < feeInfo.totalFeeRequired * 95) =>
              Answered(403, "Insufficient fee payment") /\ NeverSignedNorSent

\* C5 amended: the threshold is floor(totalFee * 0.95).  A transaction signed
\* by the fee-aware controller holds a transfer to the fee-collection
\* address, the one the handler counted, of at least floor(totalFee * 0.95)
\* lamports, totalFee being calculateAllFees' answer to this request; a
\* counted fee payment below that floor is answered 403 'Insufficient fee
\* payment' and the transaction is neither signed nor submitted.
C5_FlooredMargin ==
    variant = "feeAware" =>
        /\ SponsorSigned(transaction) =>
              /\ feeInfo # NoFeeInfo
              /\ \E k \in InstructionIndices(transaction.message) :
                    /\ FeeTransferAt(transaction.message, k)
                    /\ AmountAt(transaction.message, k) = scan.feePaymentAmount
                    /\ AmountAt(transaction.message, k) >=
                          (feeInfo.totalFeeRequired * 95) \div 100
        /\ (FeeQuoted /\ scan.feePaymentFound
              /\ scan.feePaymentAmount < (feeInfo.totalFeeRequired * 95) \div 100) =>
              Answered(403, "Insufficient fee payment") /\ NeverSignedNorSent

\* a fee payment equal to the floor and below the exact 95% was signed
C5_Witness ==
    /\ variant = "feeAware"
    /\ SponsorSigned(transaction)
    /\ scan.feePaymentAmount = (feeInfo.totalFeeRequired * 95) \div 100
    /\ scan.feePaymentAmount * 100 < feeInfo.totalFeeRequired * 95

----------------------------------------------------------------------------
(* C6 *)

\* C6: once the fee quote is known, the fee check of the fee-aware
\* controller passes exactly when some transfer to the fee-collection
\* address carries at least the threshold, wherever it stands among the
\* other transfers to that address.
C6_AnySufficientTransferPasses ==
    FeeQuoted =>
        ( response.error \notin {"Missing fee payment", "Insufficient fee payment"}
          <=> \E k \in InstructionIndices(body.message) :
                 /\ FeeTransferAt(body.message, k)
                 /\ AmountAt(body.message, k) >= (feeInfo.totalFeeRequired * 95) \div 100 )

----------------------------------------------------------------------------
(* C7 *)

\* fee payer = sponsor, and every System transfer of the message is sent by
\* a resolvable key other than the sponsor's that is marked signer, to a
\* resolvable recipient
UserSignedTransfersOnly(m) ==
    /\ FeePayerIsSponsor(m)
    /\ \A k \in InstructionIndices(m) :
          TransferAt(m, k) =>
             /\ AccountAt(m, k, 1) \notin {Undefined, Sponsor}
             /\ FirstAccountSigns(m, k)
             /\ AccountAt(m, k, 2) # Undefined

HasUserTransfer(m) ==
    \E k \in InstructionIndices(m) : TransferAt(m, k) /\ ~FeeTransferAt(m, k)

HasFeeTransfer(m) == \E k \in InstructionIndices(m) : FeeTransferAt(m, k)

\* C7: with the fee-aware controller, a transaction of user-signed transfers
\* that has a user transfer and no transfer to the fee-collection address is
\* answered 403 'Missing fee payment', and one whose transfers to the
\* fee-collection address are all below the threshold is answered 403
\* 'Insufficient fee payment'; both answers carry the totalFeeRequired that
\* calculateAllFees computed, and the request neither signs nor submits.
C7_MissingOrInsufficient ==
    ( /\ variant = "feeAware"
      /\ InRequest
      /\ Decoded
      /\ UserSignedTransfersOnly(body.message)
      /\ HasUserTransfer(body.message) ) =>
        /\ ~HasFeeTransfer(body.message) =>
              /\ pc \in {"awaitFees", "done"}
              /\ NeverSignedNorSent
              /\ pc = "done" =>
                    /\ Answered(403, "Missing fee payment")
                    /\ feeInfo # NoFeeInfo
                    /\ response.details =
                          [expectedTotalFee |-> feeInfo.totalFeeRequired,
                           address |-> FEE_COLLECTION_ADDRESS]
        /\ ( /\ HasFeeTransfer(body.message)
             /\ FeeQuoted
             /\ \A k \in InstructionIndices(body.message) :
                   FeeTransferAt(body.message, k) =>
                      AmountAt(body.message, k) < (feeInfo.totalFeeRequired * 95) \div 100 ) =>
              /\ Answered(403, "Insufficient fee payment")
              /\ response.details.expectedTotalFee = feeInfo.totalFeeRequired
              /\ NeverSignedNorSent

\* scenario A: a single user-signed transfer and no fee payment
C7_Witness ==
    /\ variant = "feeAware"
    /\ Decoded
    /\ UserSignedTransfersOnly(body.message)
    /\ Len(body.message.compiledInstructions) = 1
    /\ HasUserTransfer(body.message)
    /\ Answered(403, "Missing fee payment")

----------------------------------------------------------------------------
(* C8 *)

\* the last transfer to the fee-collection address, the one whose amount
\* the handler keeps; 0 when there is none
LastFeeTransfer(m) ==
    LET ks == { k \in InstructionIndices(m) :
                  FeeTransferAt(m, k) /\ AccountAt(m, k, 1) \notin {Undefined, Sponsor} }
    IN IF ks = {} THEN 0 ELSE CHOOSE k \in ks : \A j \in ks : j <= k

\* C8: in every transaction the fee-aware controller signs, the sender of
\* the fee payment is marked signer; a fee payment by an account that is
\* not marked signer is answered 403 'Transaction not signed by sender' and
\* nothing is signed or submitted.
C8_FeePayingAccountSigns ==
    ( /\ variant = "feeAware"
      /\ InRequest
      /\ Decoded
      /\ FeePayerIsSponsor(body.message)
      /\ LastFeeTransfer(body.message) # 0
      /\ ~FirstAccountSigns(body.message, LastFeeTransfer(body.message)) ) =>
        /\ ~SponsorSigned(transaction)
        /\ sendCalls = 0
        /\ pc = "done" => response.status = 403

----------------------------------------------------------------------------
(* C9 *)

\* C9: a request calls connection.sendTransaction at most once: once when
\* the checks passed and the sponsor signed, never when it is answered 400
\* or 403 or fails before the submission, and not again after the
\* submission failed.
C9_AtMostOneSend ==
    /\ sendCalls \in {0, 1}
    /\ Len(submitted) = sendCalls
    /\ SponsorSigned(transaction) <=> sendCalls = 1
    /\ pc = "awaitSend" <=> (sendCalls = 1 /\ ledgerReply = NoReply)
    /\ (pc = "done" /\ response.status \in {400, 403}) => sendCalls = 0
    /\ (pc = "done" /\ response.status = 200) => (sendCalls = 1 /\ ledgerReply.ok)
    /\ (pc = "done" /\ response.status = 500) =>
          IF ledgerReply = NoReply THEN sendCalls = 0
          ELSE sendCalls = 1 /\ ~ledgerReply.ok

\* a submission failed and the request ended with its single call
C9_Witness ==
    /\ pc = "done"
    /\ response.status = 500
    /\ ledgerReply.message = "simulation failed"
    /\ sendCalls = 1

----------------------------------------------------------------------------
(* C10 *)

\* fee payer = sponsor and the only instruction is a user-signed System
\* transfer from a key other than the sponsor's to a recipient other than
\* the fee-collection address
SingleUserTransfer(m) ==
    /\ FeePayerIsSponsor(m)
    /\ Len(m.compiledInstructions) = 1
    /\ TransferAt(m, 1)
    /\ AccountAt(m, 1, 1) \notin {Undefined, Sponsor}
    /\ FirstAccountSigns(m, 1)
    /\ AccountAt(m, 1, 2) \notin {Undefined, FEE_COLLECTION_ADDRESS}

\* C10 as claimed: such a transaction, when no upstream call fails, is
\* answered 200 with the identifier sendTransaction returned and the message
\* 'Transaction sent successfully', with any sponsorTransaction.
C10_SingleTransferSent ==
    ( /\ Decoded
      /\ SingleUserTransfer(body.message)
      /\ pc = "done"
      /\ response.status # 500 ) =>
        /\ response.status = 200
        /\ response.transactionHash = ledgerReply.signature
        /\ response.message = "Transaction sent successfully"

\* C10 amended: the no-fee controller signs such a transaction, submits it
\* once, and answers 200 with the identifier sendTransaction returned and
\* 'Transaction sent successfully' when sendTransaction returns one, 500
\* when it throws.
C10_NoFeeSingleTransferSent ==
    ( /\ variant = "noFee"
      /\ InRequest
      /\ Decoded
      /\ SingleUserTransfer(body.message) ) =>
        /\ pc \in {"awaitSend", "done"}
        /\ SponsorSigned(transaction)
        /\ sendCalls = 1
        /\ pc = "done" =>
              IF ledgerReply.ok
              THEN /\ response.status = 200
                   /\ response.transactionHash = ledgerReply.signature
                   /\ response.message = "Transaction sent successfully"
              ELSE response.status = 500

\* the no-fee controller answered 200 with the second identifier
C10_Witness ==
    /\ variant = "noFee"
    /\ Decoded
    /\ SingleUserTransfer(body.message)
    /\ pc = "done"
    /\ response.status = 200
    /\ response.transactionHash = "sig2"

----------------------------------------------------------------------------
(* C11 *)

\* C11: a request whose body has no transaction field, or an empty one, is
\* answered 400 'Missing transaction data' by every controller; nothing is
\* decoded, no fee quote is asked for, and nothing is signed or submitted.
C11_MissingTransactionData ==
    (InRequest /\ NoTransactionData(body)) =>
        /\ pc = "done"
        /\ response = ErrorResponse(400, "Missing transaction data", NoDetails)
        /\ transaction = NoTransaction
        /\ scan = NoScan
        /\ feeInfo = NoFeeInfo
        /\ NeverSignedNorSent

\* the fee-aware controller answered an empty transaction field
C11_Witness ==
    /\ variant = "feeAware"
    /\ body = Empty
    /\ pc = "done"
    /\ response.status = 400

----------------------------------------------------------------------------
(* C12 *)

\* prepareFeeTransaction answered 200
PrepareSucceeded == prep.pc = "done" /\ prep.response.status = 200

\* C12: the transaction of a 200 answer of prepareFeeTransaction has the
\* sponsor's key as account key 0 and exactly two instructions, both System
\* transfers from the requested sender: the first to the requested
\* recipient for the requested amount, the second to the fee-collection
\* address for the totalFeeRequired of the answer's fees; no slot holds the
\* sponsor's signature, and prepareFeeTransaction submits nothing.
C12_PreparedTransactionShape ==
    /\ PrepareSucceeded =>
          LET tx == prep.response.preparedTransaction
              m == tx.message
              req == prep.request
          IN /\ FeePayerIsSponsor(m)
             /\ Len(m.compiledInstructions) = 2
             /\ TransferAt(m, 1)
             /\ AccountAt(m, 1, 1) = req.senderAddress
             /\ AccountAt(m, 1, 2) = req.recipientAddress
             /\ AmountAt(m, 1) * 10 = req.amount.tenths
             /\ TransferAt(m, 2)
             /\ AccountAt(m, 2, 1) = req.senderAddress
             /\ AccountAt(m, 2, 2) = FEE_COLLECTION_ADDRESS
             /\ AmountAt(m, 2) = prep.response.fees.totalFeeRequired
             /\ prep.response.fees.totalFeeRequired =
                   prep.response.fees.serviceFeeAmount
                      + prep.response.fees.gasFeeReimbursement
             /\ ~SponsorSigned(tx)
    /\ pc = "idle" => (sendCalls = 0 /\ submitted = <<>>)

\* a transfer of 9500 lamports from UserA to UserB was prepared under a
\* quote with a gas estimate above the default
C12_Witness ==
    /\ PrepareSucceeded
    /\ prep.request.senderAddress = UserA
    /\ prep.request.recipientAddress = UserB
    /\ prep.request.amount = Amount(10 * SmallAmount)
    /\ prep.response.fees.totalFeeRequired = MIN_SERVICE_FEE + DEFAULT_GAS_FEE + 1

----------------------------------------------------------------------------
(* C13 *)

\* the prepared transaction, countersigned by a sender other than the
\* sponsor, is being handled by sponsorTransaction
PreparedSubmitted ==
    /\ PrepareSucceeded
    /\ prep.request.senderAddress # Sponsor
    /\ InRequest

\* C13: a prepared transaction countersigned by its sender is not turned
\* down by the checks that precede the fee quote, and once the quote of the
\* submission is known it is signed by the sponsor and submitted whenever
\* the fee written at prepare time is at least 95% of the total fee of that
\* quote (the same quote included).
C13_PreparedTransactionAccepted ==
    PreparedSubmitted =>
        /\ pc = "done" => response.status \in {200, 500}
                             \/ response.error \in {"Missing fee payment",
                                                    "Insufficient fee payment"}
        /\ ( /\ pc \in {"awaitSend", "done"}
             /\ feeInfo # NoFeeInfo
             /\ prep.response.fees.totalFeeRequired * 100
                   >= feeInfo.totalFeeRequired * 95 ) =>
              (SponsorSigned(transaction) /\ sendCalls = 1)

\* the calls of getCurrentFeeData that returned, with what they returned
Returned(c) == calls[c].pc = "returned"

SameWindow(c1, c2) ==
    /\ calls[c1].returnedAt - calls[c2].returnedAt < CACHE_DURATION
    /\ calls[c2].returnedAt - calls[c1].returnedAt < CACHE_DURATION

\* C14: any two getCurrentFeeData calls that both return within one
\* 5-minute freshness window return identical quotes (same gasFeeLamports,
\* serviceFeePercentage and solPriceUsd), whatever the interleaving of the
\* callers, callers that started during a refresh in flight included.
\* Two callers that both find the cache empty or stale each run their own
\* refresh, and each returns what its own upstream calls answered
C14_IdenticalQuotesInWindow ==
    \A c1, c2 \in Callers :
        (Returned(c1) /\ Returned(c2) /\ SameWindow(c1, c2))
            => calls[c1].result = calls[c2].result

\* connection.sendTransaction threw and the request was answered
SendFailed == pc = "done" /\ ledgerReply # NoReply /\ ~ledgerReply.ok

\* C15: when connection.sendTransaction fails, the handler answers 500
\* 'Failed to process transaction' with details holding the error's message
\* and, when the error carries logs, every log line; the transaction was
\* handed to the ledger once (no retry by the handler) and the response has
\* no transactionHash
C15_SendFailureReported ==
    SendFailed =>
        /\ response.status = 500
        /\ response.error = "Failed to process transaction"
        /\ response.details # NoDetails
        /\ response.details.errorMessage = ledgerReply.message
        /\ response.details.logs = ledgerReply.logs
        /\ response.transactionHash = ""
        /\ sendCalls = 1
        /\ Len(submitted) = 1

\* a submission failed with simulation logs, under the fee-aware controller
C15_Witness ==
    /\ SendFailed
    /\ variant = "feeAware"
    /\ Len(ledgerReply.logs) = 2
    /\ response.details.logs = ledgerReply.logs

\* the signature slot of the sponsor's key in the submitted input
SponsorSlot == SignerIndex(Deserialize(body), FEE_PAYER_ADDRESS)

\* the transaction object has the message of the input and, outside the
\* sponsor's slot, the signatures of the input
SameButSponsorSlot(tx) ==
    /\ tx.message = body.message
    /\ DOMAIN tx.signatures = DOMAIN body.signatures
    /\ \A i \in DOMAIN tx.signatures :
          i # SponsorSlot => tx.signatures[i] = body.signatures[i]

\* C16: between decoding and the sponsor's signing no step changes the
\* transaction, and the signing changes the sponsor's signature slot only:
\* the account keys, the instructions and every user signature of what is
\* handed to sendTransaction are those of the submitted input
C16_OnlySponsorSlotChanges ==
    (Decoded /\ transaction # NoTransaction) =>
        /\ sendCalls = 0 => transaction = Deserialize(body)
        /\ SameButSponsorSlot(transaction)
        /\ \A k \in 1..Len(submitted) :
              /\ SameButSponsorSlot(submitted[k])
              /\ submitted[k].signatures[SponsorSlot] = SponsorSignature
              /\ submitted[k] = transaction

\* a transaction countersigned by a user was signed by the sponsor and
\* handed to the ledger
C16_Witness ==
    /\ Decoded
    /\ Len(submitted) = 1
    /\ \E i \in DOMAIN body.signatures :
          i # SponsorSlot /\ body.signatures[i] = UserSignature
    /\ body.signatures[SponsorSlot] = NoSignature
    /\ submitted[1].signatures[SponsorSlot] = SponsorSignature
    /\ Len(body.message.compiledInstructions) > 0

\* instruction k of the message refers, by its program-id index or by one of
\* its account indexes, to a position outside the account-key table
OutOfRangeAt(m, k) ==
    LET ins == m.compiledInstructions[k]
        InTable(i) == i \in 0..(Len(m.staticAccountKeys) - 1)
    IN \/ ~InTable(ins.programIdIndex)
       \/ \E n \in DOMAIN ins.accountKeyIndexes : ~InTable(ins.accountKeyIndexes[n])

\* the body is a malformed transaction: bytes that do not deserialize, or a
\* message with an instruction that points outside the key table
Malformed ==
    \/ body = Garbage
    \/ /\ Decoded
       /\ \E k \in InstructionIndices(body.message) : OutOfRangeAt(body.message, k)

\* C17: a malformed transaction (undeserializable bytes, or an instruction
\* whose program-id or account index lies outside the account-key table) is
\* rejected with a client error, not with HTTP 500, and is never signed or
\* submitted.  The controllers answer undeserializable bytes from the catch
\* block with 500, and skip an instruction whose indexes do not resolve
C17_MalformedRejected ==
    (InRequest /\ Malformed) =>
        /\ NeverSignedNorSent
        /\ pc = "done" => response.status \in 400..499

\* the message holds a System transfer whose sender account is the sponsor
SponsorDebitTransfer(m) ==
    \E k \in InstructionIndices(m) :
        TransferAt(m, k) /\ AccountAt(m, k, 1) = Sponsor

\* the fee-aware controller rejected the decoded transaction with a 403
Rejected ==
    variant = "feeAware" /\ Decoded /\ pc = "done" /\ response.status = 403

\* C18: rejection reasons follow the rule order, first match wins: a
\* transaction that breaks the fee-payer rule and the sponsor-debit rule is
\* rejected as 'Invalid fee payer in transaction'; one with the right fee
\* payer that holds a sponsor-debit transfer and lacks a sufficient fee
\* payment or a signing sender is rejected as 'Transaction attempts to
\* transfer funds from fee payer', never with a fee or signer error.  A
\* sponsor-debit transfer whose recipient does not resolve is skipped by the
\* scan, and the rejection then names the signer or the fee
C18_FirstRuleWins ==
    (Rejected /\ SponsorDebitTransfer(body.message)) =>
        IF FeePayerIsSponsor(body.message)
        THEN response.error = "Transaction attempts to transfer funds from fee payer"
        ELSE response.error = "Invalid fee payer in transaction"

\* what the calls that are in flight or have returned show: a call answered
\* from the cache made no upstream call and its quote comes from a refresh
\* that started less than a freshness window before the call; any other call
\* went upstream and returns what the upstream calls gave
CacheReturnsAreFresh ==
    \A c \in Callers :
        /\ (Returned(c) /\ calls[c].fromCache) =>
              /\ ~calls[c].upstream
              /\ calls[c].started - calls[c].origin < CACHE_DURATION
        /\ (Returned(c) /\ ~calls[c].fromCache) =>
              /\ calls[c].upstream
              /\ calls[c].result = FreshFeeData(calls[c].gasReply, calls[c].priceReply)
        /\ calls[c].pc = "fetching" => calls[c].upstream

\* what each step of a call does to the cache
CacheStep ==
    \A c \in Callers :
        /\ (calls[c].pc = "idle" /\ calls'[c].pc # "idle") =>
              IF feeDataCache # NoCache /\ now - lastFeeDataUpdate < CACHE_DURATION
              THEN /\ calls'[c].pc = "returned"
                   /\ calls'[c].result = feeDataCache
                   /\ calls'[c].fromCache
                   /\ feeDataCache' = feeDataCache
                   /\ lastFeeDataUpdate' = lastFeeDataUpdate
              ELSE /\ calls'[c].pc = "fetching"
                   /\ feeDataCache' = feeDataCache
        /\ (calls[c].pc = "fetching" /\ calls'[c].pc = "returned") =>
              /\ feeDataCache' = calls'[c].result
              /\ feeDataCache' # NoCache

\* C19: getCurrentFeeData returns the cached quote unchanged, without a call
\* to the ledger client or the price feed, whenever a quote is cached and
\* now - lastFeeDataUpdate is below 5 minutes; with no cached quote or an age
\* of 5 minutes or more it recomputes and replaces the cache; so no quote
\* returned from the cache comes from a refresh that started 5 minutes or
\* more before the call
C19_CacheFreshness == []CacheReturnsAreFresh /\ [][CacheStep]_vars

\* a call was answered from a cache whose refresh started one tick less than
\* a freshness window before, while the other caller refreshed a stale cache
C19_Witness ==
    \E c1, c2 \in Callers :
        /\ Returned(c1) /\ calls[c1].fromCache
        /\ calls[c1].started - calls[c1].origin = CACHE_DURATION - 1
        /\ Returned(c2) /\ ~calls[c2].fromCache
        /\ calls[c2].started >= ProcessStart + CACHE_DURATION

\* the upstream calls of a refresh that failed
GasEstimateFailed(c) == calls[c].gasReply.kind \in {"throws", "null"}
PriceFeedFailed(c) == calls[c].priceReply.kind \in {"throws", "no solana"}

\* the quote a refresh returns when an upstream call failed
FallbackQuote ==
    \A c \in Callers :
        (Returned(c) /\ calls[c].upstream) =>
            /\ GasEstimateFailed(c) => calls[c].result.gasFeeLamports = DEFAULT_GAS_FEE
            /\ PriceFeedFailed(c) =>
                  /\ calls[c].result.solPriceUsd = NoPrice
                  /\ calls[c].result.serviceFeePercentage = DEFAULT_SERVICE_FEE_PERCENTAGE
                  /\ \A amount \in {0, SmallAmount, LargeAmount} :
                        CalculateAllFees(calls[c].result, amount).usdValues = NoUsdValues

\* a refresh in flight ends with a returned quote that is the new cache,
\* whatever the upstream calls answered
RefreshStep ==
    \A c \in Callers :
        (calls[c].pc = "fetching" /\ calls'[c] # calls[c]) =>
            /\ calls'[c].pc = "returned"
            /\ feeDataCache' = calls'[c].result
            /\ feeDataCache' # NoCache
            /\ lastFeeDataUpdate' = calls[c].started

\* C20: a refresh of the fee oracle never fails because of its upstream
\* calls: when the gas estimate throws or is null the quote has
\* gasFeeLamports = 5000; when the price feed fails the quote has
\* solPriceUsd = null and the default service-fee percentage, and
\* calculateAllFees returns usdValues = null; getCurrentFeeData completes and
\* updates the cache all the same
C20_RefreshNeverFails == []FallbackQuote /\ [][RefreshStep]_vars

\* a refresh whose gas estimate was null and whose price fetch threw
\* returned the fallback quote, which is the cache
C20_Witness ==
    \E c \in Callers :
        /\ Returned(c) /\ calls[c].upstream
        /\ calls[c].gasReply.kind = "null"
        /\ calls[c].priceReply.kind = "throws"
        /\ calls[c].result = [gasFeeLamports |-> DEFAULT_GAS_FEE,
                              serviceFeePercentage |-> DEFAULT_SERVICE_FEE_PERCENTAGE,
                              solPriceUsd |-> NoPrice]
        /\ feeDataCache = calls[c].result

\* calculateAllFees has returned these fees
FeesCalculated == feeInfo # NoFeeInfo

\* s is the least whole number of lamports that is at least the given
\* share (in tenths of a percent) of the amount
IsCeilingOfShare(s, amount, tenths) ==
    s * 1000 >= amount * tenths /\ (s - 1) * 1000 < amount * tenths

\* the fees are the ones the formula gives for the amount and the quote
FeeFormula ==
    FeesCalculated =>
        LET a == feeInfo.originalTransferAmount
            t == feeInfo.serviceFeePercentage
            s == feeInfo.serviceFeeAmount
        IN /\ s >= MIN_SERVICE_FEE
           /\ \/ s = MIN_SERVICE_FEE /\ a * t <= MIN_SERVICE_FEE * 1000
              \/ s > MIN_SERVICE_FEE /\ IsCeilingOfShare(s, a, t)
           /\ feeInfo.totalFeeRequired = s + feeInfo.gasFeeReimbursement
           /\ feeInfo.totalFeeRequired >= MIN_SERVICE_FEE + feeInfo.gasFeeReimbursement

\* from one call to the next with the same quote, a larger amount never
\* gives smaller fees
FeesNonDecreasing ==
    ( /\ FeesCalculated
      /\ feeInfo'.serviceFeePercentage = feeInfo.serviceFeePercentage
      /\ feeInfo'.gasFeeReimbursement = feeInfo.gasFeeReimbursement
      /\ feeInfo'.originalTransferAmount >= feeInfo.originalTransferAmount ) =>
        /\ feeInfo'.serviceFeeAmount >= feeInfo.serviceFeeAmount
        /\ feeInfo'.totalFeeRequired >= feeInfo.totalFeeRequired

\* C21: calculateAllFees(amount) returns serviceFeeAmount =
\* max(ceil(amount * serviceFeePercentage / 100), 5000) and totalFeeRequired =
\* serviceFeeAmount + gasFeeLamports for every non-negative amount and every
\* quote; so serviceFeeAmount >= 5000, totalFeeRequired >= 5000 +
\* gasFeeLamports, and both are non-decreasing in the amount
C21_FeeFormula == []FeeFormula /\ [][FeesNonDecreasing]_vars

\* a fee above the minimum that had to be rounded up
C21_Witness ==
    /\ FeesCalculated
    /\ feeInfo.originalTransferAmount = 1000001
    /\ feeInfo.serviceFeePercentage = 5
    /\ feeInfo.serviceFeeAmount = 5001
    /\ feeInfo.totalFeeRequired = 5001 + feeInfo.gasFeeReimbursement

\* the percentage of the quote is the one of the band of its price
PriceBands ==
    FeesCalculated =>
        LET p == feeInfo.solPriceUsd
            t == feeInfo.serviceFeePercentage
        IN IF p = NoPrice THEN t = DEFAULT_SERVICE_FEE_PERCENTAGE
           ELSE /\ p > 100 => t = 3
                /\ p < 20 => t = 7
                /\ (p >= 20 /\ p <= 100) => t = 5

\* from one quote to another with a price at least as high, the percentage
\* does not rise
RateNonIncreasing ==
    ( /\ FeesCalculated
      /\ feeInfo.solPriceUsd # NoPrice
      /\ feeInfo'.solPriceUsd # NoPrice
      /\ feeInfo'.solPriceUsd >= feeInfo.solPriceUsd ) =>
        feeInfo'.serviceFeePercentage <= feeInfo.serviceFeePercentage

\* C22: the service-fee percentage is a function of the reference price by
\* fixed bands: above 100 it is 0.3, below 20 it is 0.7, from 20 to 100
\* inclusive it is 0.5, and without a price it is the configured default;
\* the rate is therefore non-increasing in the price
C22_PriceBands == []PriceBands /\ [][RateNonIncreasing]_vars

\* a quote at the upper limit of the middle band
C22_Witness ==
    /\ FeesCalculated
    /\ feeInfo.solPriceUsd = 100
    /\ feeInfo.serviceFeePercentage = 5

\* the key in the sponsor-signed slot of a submitted transaction
SigningKeys(tx) ==
    { tx.message.staticAccountKeys[i] :
        i \in { j \in DOMAIN tx.signatures : tx.signatures[j] = SponsorSignature } }

\* the wallet-health check has read, or is reading, the balance of a key
BalanceRead == health.pc # "idle"

\* C23: there is one sponsor identity for the life of the process: the key
\* compared with the fee-payer slot, the key that signs, the payer key of
\* prepared transactions and the key whose balance the wallet-health check
\* reads are the same in every request, also when WALLET_PRIVATE_KEY is
\* missing or invalid and a temporary key is generated.  The health check
\* calls getFeePayerWallet(), which generates a new key on every call when
\* the variable holds no usable key
C23_OneSponsorIdentity ==
    /\ PrepareSucceeded =>
          prep.response.preparedTransaction.message.staticAccountKeys[1]
              = FEE_PAYER_ADDRESS
    /\ \A k \in 1..Len(submitted) : SigningKeys(submitted[k]) = {FEE_PAYER_ADDRESS}
    /\ BalanceRead => health.balanceOf = FEE_PAYER_ADDRESS

\* what a sponsorTransaction call on its own is at, given its body, the
\* quote it read and the answer of the ledger
AloneSponsor(req) ==
    LET first == FeeAwareSponsorTransaction(req.body)
        second == FeeAwareVerifyFee(first,
                      CalculateAllFees(req.quote, first.scan.transferAmount))
    IN IF first.pc = "done" \/ req.o.pc = "awaitFees" THEN first
       ELSE IF second.pc = "done" \/ req.reply = NoReply THEN second
       ELSE AfterSend("feeAware", second, req.reply)

\* what a prepareFeeTransaction call on its own is at, given its body, the
\* quote it read and the answer to its blockhash call
AlonePrepare(req) ==
    LET first == PrepareFeeTransaction(req.p.request)
        second == PrepareAfterFees(first, req.quote)
    IN IF first.pc = "done" \/ req.p.pc = "awaitFees" THEN first
       ELSE IF req.blockhash = "none" THEN second
       ELSE PrepareAfterBlockhash(second, req.blockhash = "ok")

\* C24: requests in flight together do not interfere: at every interleaving
\* of sponsorTransaction and prepareFeeTransaction calls at their await
\* points, the verdict of each call and the transaction it signs and submits
\* are those the call reaches on its own from its input and the fee quote it
\* read; a quote read from the cache is the one a refresh of some call wrote
C24_NoInterference ==
    \A r \in Slots :
        /\ requests[r].kind = "sponsor" => requests[r].o = AloneSponsor(requests[r])
        /\ requests[r].kind = "prepare" => requests[r].p = AlonePrepare(requests[r])
        /\ requests[r].cached => requests[r].quote \in ConcurrentQuotes

\* two sponsorTransaction calls are past their fee quote together, one
\* signed and submitted, the other turned down for its fee, while the first
\* still waits for the ledger
C24_Witness ==
    \E r \in Slots :
        /\ requests[r].kind = "sponsor"
        /\ requests[r].o.pc = "awaitSend"
        /\ requests[OtherSlot(r)].kind = "sponsor"
        /\ requests[OtherSlot(r)].o.pc = "done"
        /\ requests[OtherSlot(r)].o.response.error = "Insufficient fee payment"
        /\ requests[OtherSlot(r)].cached

\* C25: every request eventually sends its response; when an upstream call
\* (blockhash fetch, gas estimate, price feed, submission) never answers,
\* the request terminates all the same, with a time-out outcome.  The
\* handlers await their upstream calls without a deadline: a request whose
\* call never answers stays at its await
C25_EveryRequestAnswered == InRequest ~> (pc = "done")

\* the handler answered 500 from its catch block although the ledger was
\* never asked to submit: an exception that is neither a rejection by a check
\* nor a failed submission
UnexpectedException ==
    pc = "done" /\ response.status = 500 /\ sendCalls = 0 /\ ledgerReply = NoReply

\* C26: when an unexpected exception is raised inside a handler, the 500
\* response carries a generic message only; the text of the exception is not
\* in the response body.  The catch blocks put error.message into details
C26_GenericInternalError ==
    UnexpectedException => response.details = NoDetails

\* the authorization rule a handler turned the transaction down for, "none"
\* when it went past both rules
AuthorizationVerdict(o) ==
    IF /\ o.pc = "done"
       /\ o.response.error \in
             {"Invalid fee payer in transaction",
              "Transaction attempts to transfer funds from fee payer"}
    THEN o.response.error
    ELSE "none"

\* the same for validateTransaction called with the sponsor's address
ValidateTransactionVerdict(m) ==
    IF ValidateTransaction(FEE_PAYER_ADDRESS, m) THEN "none"
    ELSE "Transaction attempts to transfer funds from fee payer"

\* C27: the handler variants and validateTransaction are one engine for the
\* authorization rules: for every decoded transaction the no-fee, the
\* fee-aware and the fee-reporting sponsorTransaction and validateTransaction
\* agree on whether it breaks the fee-payer rule or the sponsor-debit rule.
\* validateTransaction never looks at the fee payer, and the fee-aware loop
\* skips a transfer from the sponsor whose recipient does not resolve, which
\* the other three turn down
C27_OneEngine ==
    (InRequest /\ Decoded) =>
        /\ AuthorizationVerdict(NoFeeSponsorTransaction(body))
              = AuthorizationVerdict(FeeAwareSponsorTransaction(body))
        /\ AuthorizationVerdict(NoFeeSponsorTransaction(body))
              = AuthorizationVerdict(FeeReportingSponsorTransaction(body))
        /\ AuthorizationVerdict(NoFeeSponsorTransaction(body))
              = ValidateTransactionVerdict(body.message)

\* instruction k is a transfer of a user to a recipient other than the
\* fee-collection address
UserTransferAt(m, k) ==
    /\ TransferAt(m, k)
    /\ AccountAt(m, k, 1) \notin {Undefined, Sponsor}
    /\ AccountAt(m, k, 2) \notin {Undefined, FEE_COLLECTION_ADDRESS}

SeveralUserTransfers(m) ==
    Cardinality({ k \in InstructionIndices(m) : UserTransferAt(m, k) }) >= 2

\* the total fee of the quote the handler read, for a transfer of the amount
TotalFeeRequiredFor(amount) ==
    CalculateServiceFee(amount, feeInfo.serviceFeePercentage)
        + feeInfo.gasFeeReimbursement

\* the fee-aware controller accepted the transaction: it signed and submitted
Accepted == variant = "feeAware" /\ Decoded /\ sendCalls = 1

\* C28: in every transaction the fee-aware controller accepts that holds
\* several transfers to recipients other than the fee-collection address,
\* the fee payment is at least floor(0.95 * totalFeeRequired(a)) for the
\* amount a of each of them, not only of the last one in instruction order.
\* The loop keeps the amount of the last user transfer alone
C28_FeeCoversEveryTransfer ==
    (Accepted /\ SeveralUserTransfers(body.message)) =>
        \A k \in InstructionIndices(body.message) :
            UserTransferAt(body.message, k) =>
                scan.feePaymentAmount
                    >= (TotalFeeRequiredFor(AmountAt(body.message, k))
                           * FEE_MARGIN_PERCENT) \div 100

\* the cache or its stamp changes only when a refresh completes, and then
\* both are written from that refresh: its quote and its own start time
WrittenTogether ==
    (feeDataCache' # feeDataCache \/ lastFeeDataUpdate' # lastFeeDataUpdate) =>
        \E c \in Callers :
            /\ calls[c].pc = "fetching"
            /\ calls'[c].pc = "returned"
            /\ feeDataCache' = calls'[c].result
            /\ lastFeeDataUpdate' = calls[c].started
            /\ cacheRefreshStarted' = calls[c].started

\* the stamp does not go back, and an older refresh does not replace a newer
WrittenInOrder ==
    /\ lastFeeDataUpdate' >= lastFeeDataUpdate
    /\ cacheRefreshStarted' >= cacheRefreshStarted

\* C29 as claimed: under concurrent refreshes of the cache, feeDataCache and
\* lastFeeDataUpdate are written together from the same refresh,
\* lastFeeDataUpdate never decreases, and a quote written by a refresh that
\* started later is never overwritten by the result of one that started
\* earlier, whatever the order in which they complete
C29_RefreshesInOrder == [][WrittenTogether /\ WrittenInOrder]_vars

\* C29: under concurrent refreshes of the cache, feeDataCache and
\* lastFeeDataUpdate are written together from the same refresh, the one
\* that completes last: the cache holds its quote and the stamp is its own
\* start time, also when a refresh that started later completed before it
C29_WrittenTogether == [][WrittenTogether]_vars

\* a refresh that started earlier completed after one that started later,
\* and the cache holds its quote under its older stamp
C29_Witness ==
    \E c1, c2 \in Callers :
        /\ Returned(c1) /\ calls[c1].upstream
        /\ Returned(c2) /\ calls[c2].upstream
        /\ calls[c1].started < calls[c2].started
        /\ calls[c1].returnedAt > calls[c2].returnedAt
        /\ feeDataCache = calls[c1].result
        /\ feeDataCache # calls[c2].result
        /\ lastFeeDataUpdate = calls[c1].started

\* the last wallet request acted with the key derived for a user
ActedWithUserKey == walletOperation.keyOf # NoUsername

\* C30: a wallet operation that acts with a user's derived private key
\* (transfer, signMessage, getWalletInfo, requestAirdrop) is executed only
\* for a request that presents a session token issued by a successful
\* verifyAuthentication; the token set holds such tokens only, and no request
\* without a valid token causes a transfer or a signature for a registered
\* username.  The wallet router calls the handlers without authenticateUser,
\* and no handler reads the Authorization header
C30_WalletOperationsNeedToken ==
    /\ tokens = { TokenNames[i] : i \in 1..issued }
    /\ ActedWithUserKey => AuthenticateUser(walletOperation.token, tokens)

====
